---- MODULE Spec2Model ----
(***************************************************************************)
(* The request-translation layer of the NetBox MCP server                  *)
(* (src/src/netbox_mcp_server/server.py): catalog lookup, filter           *)
(* validation, query-parameter construction and the multi-type search.     *)
(*                                                                         *)
(* Python values are tagged tuples, so that 1 and "1" stay different:      *)
(* PyInt(5), PyStr("id,name"), PyList(<<...>>), NoneV.  A Python dict is the     *)
(* sequence of its <<key, value>> items in insertion order.                *)
(***************************************************************************)
EXTENDS Integers, Sequences, FiniteSets, TLC

VARIABLES
    pc,        \* main: "main", "settings", "client", "transport", "exited"; the
               \* transport: "idle" (awaiting a tool call), "search"
               \* (netbox_search_objects is in its result loop) or "done" (the
               \* call has returned or raised)
    inv,       \* the current (or last) tool invocation: its name and arguments
    calls,     \* the backend requests this invocation has issued, in order
    replies,   \* what the backend did with each of them, in the same order
    outcome,   \* how the last finished invocation ended: returned value or raised error
    results,   \* netbox_search_objects: the local dict 'results'
    idx,       \* netbox_search_objects: position of the result loop in search_types
    netbox,    \* the module-level backend-client handle (None until main sets it)
    catalog,   \* the module-level dict NETBOX_OBJECT_TYPES as it is now
    default_types,  \* the module-level list DEFAULT_SEARCH_TYPES as it is now
    exit_status,    \* the status the process exited with (None while it runs)
    earlier    \* history: the tools called before the current call, oldest
               \* first (kept by the session specification only)

vars == <<pc, inv, calls, replies, outcome, results, idx,
          netbox, catalog, default_types, exit_status, earlier>>

-----------------------------------------------------------------------------
(* Bounds of the model. *)

\* longest explicit object_types list given to netbox_search_objects
MaxTypes == 2
\* most entries in a filters dict given to netbox_get_objects
MaxFilters == 2
\* most entries in a filters dict given to validate_filters on its own
MaxVFilters == 1
\* longest generated filter key (over KeyAlphabet) given to validate_filters
MaxKeyLen == 4
\* most earlier tool calls the session specification keeps a record of
MaxEarlier == 1

-----------------------------------------------------------------------------
(* Python values. *)

NoneV == <<"none">>
PyInt(n) == <<"int", n>>
PyStr(s) == <<"str", s>>
PyList(l) == <<"list", l>>
PyDict(d) == <<"dict", d>>

\* bool(v) for the values the handlers test: None, strings, lists and dicts
Truthy(v) ==
    CASE v[1] = "none" -> FALSE
      [] v[1] = "str" -> v[2] # ""
      [] v[1] = "list" -> v[2] # <<>>
      [] v[1] = "int" -> v[2] # 0
      [] v[1] = "dict" -> v[2] # <<>>
      [] OTHER -> TRUE

\* the keys of a dict, in order
Keys(d) == [i \in 1..Len(d) |-> d[i][1]]
KeySet(d) == {d[i][1] : i \in 1..Len(d)}
DictHas(d, k) == k \in KeySet(d)
\* d[k]
DictGet(d, k) == d[CHOOSE i \in 1..Len(d) : d[i][1] = k][2]
\* d.get(k, default)
DictGetOr(d, k, default) == IF DictHas(d, k) THEN DictGet(d, k) ELSE default
\* d[k] = v: an existing key keeps its position, a new key goes last
DictSet(d, k, v) ==
    IF DictHas(d, k)
    THEN [i \in 1..Len(d) |-> IF d[i][1] = k THEN <<k, v>> ELSE d[i]]
    ELSE Append(d, <<k, v>>)

-----------------------------------------------------------------------------
(* The catalog. *)

NETBOX_OBJECT_TYPES ==
    (  "circuits.circuit" :> [name |-> "Circuit", endpoint |-> "circuits/circuits"]
        @@ "circuits.circuitgroup" :> [name |-> "CircuitGroup", endpoint |-> "circuits/circuit-groups"]
        @@ "circuits.circuitgroupassignment" :> [name |-> "CircuitGroupAssignment", endpoint |-> "circuits/circuit-group-assignments"]
        @@ "circuits.circuittermination" :> [name |-> "CircuitTermination", endpoint |-> "circuits/circuit-terminations"]
        @@ "circuits.circuittype" :> [name |-> "CircuitType", endpoint |-> "circuits/circuit-types"]
        @@ "circuits.provider" :> [name |-> "Provider", endpoint |-> "circuits/providers"]
        @@ "circuits.provideraccount" :> [name |-> "ProviderAccount", endpoint |-> "circuits/provider-accounts"]
        @@ "circuits.providernetwork" :> [name |-> "ProviderNetwork", endpoint |-> "circuits/provider-networks"] )
    @@ (  "circuits.virtualcircuit" :> [name |-> "VirtualCircuit", endpoint |-> "circuits/virtual-circuits"]
           @@ "circuits.virtualcircuittermination" :> [name |-> "VirtualCircuitTermination", endpoint |-> "circuits/virtual-circuit-terminations"]
           @@ "circuits.virtualcircuittype" :> [name |-> "VirtualCircuitType", endpoint |-> "circuits/virtual-circuit-types"]
           @@ "core.datafile" :> [name |-> "DataFile", endpoint |-> "core/data-files"]
           @@ "core.datasource" :> [name |-> "DataSource", endpoint |-> "core/data-sources"]
           @@ "core.job" :> [name |-> "Job", endpoint |-> "core/jobs"]
           @@ "core.objectchange" :> [name |-> "ObjectChange", endpoint |-> "core/object-changes"]
           @@ "core.objecttype" :> [name |-> "ObjectType", endpoint |-> "extras/object-types"] )
    @@ (  "dcim.cable" :> [name |-> "Cable", endpoint |-> "dcim/cables"]
           @@ "dcim.cabletermination" :> [name |-> "CableTermination", endpoint |-> "dcim/cable-terminations"]
           @@ "dcim.consoleport" :> [name |-> "ConsolePort", endpoint |-> "dcim/console-ports"]
           @@ "dcim.consoleporttemplate" :> [name |-> "ConsolePortTemplate", endpoint |-> "dcim/console-port-templates"]
           @@ "dcim.consoleserverport" :> [name |-> "ConsoleServerPort", endpoint |-> "dcim/console-server-ports"]
           @@ "dcim.consoleserverporttemplate" :> [name |-> "ConsoleServerPortTemplate", endpoint |-> "dcim/console-server-port-templates"]
           @@ "dcim.device" :> [name |-> "Device", endpoint |-> "dcim/devices"]
           @@ "dcim.devicebay" :> [name |-> "DeviceBay", endpoint |-> "dcim/device-bays"] )
    @@ (  "dcim.devicebaytemplate" :> [name |-> "DeviceBayTemplate", endpoint |-> "dcim/device-bay-templates"]
           @@ "dcim.devicerole" :> [name |-> "DeviceRole", endpoint |-> "dcim/device-roles"]
           @@ "dcim.devicetype" :> [name |-> "DeviceType", endpoint |-> "dcim/device-types"]
           @@ "dcim.frontport" :> [name |-> "FrontPort", endpoint |-> "dcim/front-ports"]
           @@ "dcim.frontporttemplate" :> [name |-> "FrontPortTemplate", endpoint |-> "dcim/front-port-templates"]
           @@ "dcim.interface" :> [name |-> "Interface", endpoint |-> "dcim/interfaces"]
           @@ "dcim.interfacetemplate" :> [name |-> "InterfaceTemplate", endpoint |-> "dcim/interface-templates"]
           @@ "dcim.inventoryitem" :> [name |-> "InventoryItem", endpoint |-> "dcim/inventory-items"] )
    @@ (  "dcim.inventoryitemrole" :> [name |-> "InventoryItemRole", endpoint |-> "dcim/inventory-item-roles"]
           @@ "dcim.inventoryitemtemplate" :> [name |-> "InventoryItemTemplate", endpoint |-> "dcim/inventory-item-templates"]
           @@ "dcim.location" :> [name |-> "Location", endpoint |-> "dcim/locations"]
           @@ "dcim.macaddress" :> [name |-> "MACAddress", endpoint |-> "dcim/mac-addresses"]
           @@ "dcim.manufacturer" :> [name |-> "Manufacturer", endpoint |-> "dcim/manufacturers"]
           @@ "dcim.module" :> [name |-> "Module", endpoint |-> "dcim/modules"]
           @@ "dcim.modulebay" :> [name |-> "ModuleBay", endpoint |-> "dcim/module-bays"]
           @@ "dcim.modulebaytemplate" :> [name |-> "ModuleBayTemplate", endpoint |-> "dcim/module-bay-templates"] )
    @@ (  "dcim.moduletype" :> [name |-> "ModuleType", endpoint |-> "dcim/module-types"]
           @@ "dcim.moduletypeprofile" :> [name |-> "ModuleTypeProfile", endpoint |-> "dcim/module-type-profiles"]
           @@ "dcim.platform" :> [name |-> "Platform", endpoint |-> "dcim/platforms"]
           @@ "dcim.powerfeed" :> [name |-> "PowerFeed", endpoint |-> "dcim/power-feeds"]
           @@ "dcim.poweroutlet" :> [name |-> "PowerOutlet", endpoint |-> "dcim/power-outlets"]
           @@ "dcim.poweroutlettemplate" :> [name |-> "PowerOutletTemplate", endpoint |-> "dcim/power-outlet-templates"]
           @@ "dcim.powerpanel" :> [name |-> "PowerPanel", endpoint |-> "dcim/power-panels"]
           @@ "dcim.powerport" :> [name |-> "PowerPort", endpoint |-> "dcim/power-ports"] )
    @@ (  "dcim.powerporttemplate" :> [name |-> "PowerPortTemplate", endpoint |-> "dcim/power-port-templates"]
           @@ "dcim.rack" :> [name |-> "Rack", endpoint |-> "dcim/racks"]
           @@ "dcim.rackreservation" :> [name |-> "RackReservation", endpoint |-> "dcim/rack-reservations"]
           @@ "dcim.rackrole" :> [name |-> "RackRole", endpoint |-> "dcim/rack-roles"]
           @@ "dcim.racktype" :> [name |-> "RackType", endpoint |-> "dcim/rack-types"]
           @@ "dcim.rearport" :> [name |-> "RearPort", endpoint |-> "dcim/rear-ports"]
           @@ "dcim.rearporttemplate" :> [name |-> "RearPortTemplate", endpoint |-> "dcim/rear-port-templates"]
           @@ "dcim.region" :> [name |-> "Region", endpoint |-> "dcim/regions"] )
    @@ (  "dcim.site" :> [name |-> "Site", endpoint |-> "dcim/sites"]
           @@ "dcim.sitegroup" :> [name |-> "SiteGroup", endpoint |-> "dcim/site-groups"]
           @@ "dcim.virtualchassis" :> [name |-> "VirtualChassis", endpoint |-> "dcim/virtual-chassis"]
           @@ "dcim.virtualdevicecontext" :> [name |-> "VirtualDeviceContext", endpoint |-> "dcim/virtual-device-contexts"]
           @@ "extras.bookmark" :> [name |-> "Bookmark", endpoint |-> "extras/bookmarks"]
           @@ "extras.configcontext" :> [name |-> "ConfigContext", endpoint |-> "extras/config-contexts"]
           @@ "extras.configtemplate" :> [name |-> "ConfigTemplate", endpoint |-> "extras/config-templates"]
           @@ "extras.customfield" :> [name |-> "CustomField", endpoint |-> "extras/custom-fields"] )
    @@ (  "extras.customfieldchoiceset" :> [name |-> "CustomFieldChoiceSet", endpoint |-> "extras/custom-field-choice-sets"]
           @@ "extras.customlink" :> [name |-> "CustomLink", endpoint |-> "extras/custom-links"]
           @@ "extras.eventrule" :> [name |-> "EventRule", endpoint |-> "extras/event-rules"]
           @@ "extras.exporttemplate" :> [name |-> "ExportTemplate", endpoint |-> "extras/export-templates"]
           @@ "extras.imageattachment" :> [name |-> "ImageAttachment", endpoint |-> "extras/image-attachments"]
           @@ "extras.journalentry" :> [name |-> "JournalEntry", endpoint |-> "extras/journal-entries"]
           @@ "extras.notification" :> [name |-> "Notification", endpoint |-> "extras/notifications"]
           @@ "extras.notificationgroup" :> [name |-> "NotificationGroup", endpoint |-> "extras/notification-groups"] )
    @@ (  "extras.savedfilter" :> [name |-> "SavedFilter", endpoint |-> "extras/saved-filters"]
           @@ "extras.script" :> [name |-> "Script", endpoint |-> "extras/scripts"]
           @@ "extras.subscription" :> [name |-> "Subscription", endpoint |-> "extras/subscriptions"]
           @@ "extras.tableconfig" :> [name |-> "TableConfig", endpoint |-> "extras/table-configs"]
           @@ "extras.tag" :> [name |-> "Tag", endpoint |-> "extras/tags"]
           @@ "extras.taggeditem" :> [name |-> "TaggedItem", endpoint |-> "extras/tagged-objects"]
           @@ "extras.webhook" :> [name |-> "Webhook", endpoint |-> "extras/webhooks"]
           @@ "ipam.aggregate" :> [name |-> "Aggregate", endpoint |-> "ipam/aggregates"] )
    @@ (  "ipam.asn" :> [name |-> "ASN", endpoint |-> "ipam/asns"]
           @@ "ipam.asnrange" :> [name |-> "ASNRange", endpoint |-> "ipam/asn-ranges"]
           @@ "ipam.fhrpgroup" :> [name |-> "FHRPGroup", endpoint |-> "ipam/fhrp-groups"]
           @@ "ipam.fhrpgroupassignment" :> [name |-> "FHRPGroupAssignment", endpoint |-> "ipam/fhrp-group-assignments"]
           @@ "ipam.ipaddress" :> [name |-> "IPAddress", endpoint |-> "ipam/ip-addresses"]
           @@ "ipam.iprange" :> [name |-> "IPRange", endpoint |-> "ipam/ip-ranges"]
           @@ "ipam.prefix" :> [name |-> "Prefix", endpoint |-> "ipam/prefixes"]
           @@ "ipam.rir" :> [name |-> "RIR", endpoint |-> "ipam/rirs"] )
    @@ (  "ipam.role" :> [name |-> "Role", endpoint |-> "ipam/roles"]
           @@ "ipam.routetarget" :> [name |-> "RouteTarget", endpoint |-> "ipam/route-targets"]
           @@ "ipam.service" :> [name |-> "Service", endpoint |-> "ipam/services"]
           @@ "ipam.servicetemplate" :> [name |-> "ServiceTemplate", endpoint |-> "ipam/service-templates"]
           @@ "ipam.vlan" :> [name |-> "VLAN", endpoint |-> "ipam/vlans"]
           @@ "ipam.vlangroup" :> [name |-> "VLANGroup", endpoint |-> "ipam/vlan-groups"]
           @@ "ipam.vlantranslationpolicy" :> [name |-> "VLANTranslationPolicy", endpoint |-> "ipam/vlan-translation-policies"]
           @@ "ipam.vlantranslationrule" :> [name |-> "VLANTranslationRule", endpoint |-> "ipam/vlan-translation-rules"] )
    @@ (  "ipam.vrf" :> [name |-> "VRF", endpoint |-> "ipam/vrfs"]
           @@ "tenancy.contact" :> [name |-> "Contact", endpoint |-> "tenancy/contacts"]
           @@ "tenancy.contactassignment" :> [name |-> "ContactAssignment", endpoint |-> "tenancy/contact-assignments"]
           @@ "tenancy.contactgroup" :> [name |-> "ContactGroup", endpoint |-> "tenancy/contact-groups"]
           @@ "tenancy.contactrole" :> [name |-> "ContactRole", endpoint |-> "tenancy/contact-roles"]
           @@ "tenancy.tenant" :> [name |-> "Tenant", endpoint |-> "tenancy/tenants"]
           @@ "tenancy.tenantgroup" :> [name |-> "TenantGroup", endpoint |-> "tenancy/tenant-groups"]
           @@ "users.group" :> [name |-> "Group", endpoint |-> "users/groups"] )
    @@ (  "users.objectpermission" :> [name |-> "ObjectPermission", endpoint |-> "users/permissions"]
           @@ "users.token" :> [name |-> "Token", endpoint |-> "users/tokens"]
           @@ "users.user" :> [name |-> "User", endpoint |-> "users/users"]
           @@ "virtualization.cluster" :> [name |-> "Cluster", endpoint |-> "virtualization/clusters"]
           @@ "virtualization.clustergroup" :> [name |-> "ClusterGroup", endpoint |-> "virtualization/cluster-groups"]
           @@ "virtualization.clustertype" :> [name |-> "ClusterType", endpoint |-> "virtualization/cluster-types"]
           @@ "virtualization.virtualdisk" :> [name |-> "VirtualDisk", endpoint |-> "virtualization/virtual-disks"]
           @@ "virtualization.virtualmachine" :> [name |-> "VirtualMachine", endpoint |-> "virtualization/virtual-machines"] )
    @@ (  "virtualization.vminterface" :> [name |-> "VMInterface", endpoint |-> "virtualization/interfaces"]
           @@ "vpn.ikepolicy" :> [name |-> "IKEPolicy", endpoint |-> "vpn/ike-policies"]
           @@ "vpn.ikeproposal" :> [name |-> "IKEProposal", endpoint |-> "vpn/ike-proposals"]
           @@ "vpn.ipsecpolicy" :> [name |-> "IPSecPolicy", endpoint |-> "vpn/ipsec-policies"]
           @@ "vpn.ipsecprofile" :> [name |-> "IPSecProfile", endpoint |-> "vpn/ipsec-profiles"]
           @@ "vpn.ipsecproposal" :> [name |-> "IPSecProposal", endpoint |-> "vpn/ipsec-proposals"]
           @@ "vpn.l2vpn" :> [name |-> "L2VPN", endpoint |-> "vpn/l2vpns"]
           @@ "vpn.l2vpntermination" :> [name |-> "L2VPNTermination", endpoint |-> "vpn/l2vpn-terminations"] )
    @@ (  "vpn.tunnel" :> [name |-> "Tunnel", endpoint |-> "vpn/tunnels"]
           @@ "vpn.tunnelgroup" :> [name |-> "TunnelGroup", endpoint |-> "vpn/tunnel-groups"]
           @@ "vpn.tunneltermination" :> [name |-> "TunnelTermination", endpoint |-> "vpn/tunnel-terminations"]
           @@ "wireless.wirelesslan" :> [name |-> "WirelessLAN", endpoint |-> "wireless/wireless-lans"]
           @@ "wireless.wirelesslangroup" :> [name |-> "WirelessLANGroup", endpoint |-> "wireless/wireless-lan-groups"]
           @@ "wireless.wirelesslink" :> [name |-> "WirelessLink", endpoint |-> "wireless/wireless-links"] )

\* slip: one entry of the default list is misspelt
DEFAULT_SEARCH_TYPES_Typo ==
    << "dcim.device", "dcim.site", "ipam.ipaddress", "dcim.interface",
       "dcim.rack", "ipam.vlans", "circuits.circuit", "virtualization.virtualmachine" >>

DEFAULT_SEARCH_TYPES ==
    << "dcim.device", "dcim.site", "ipam.ipaddress", "dcim.interface",
       "dcim.rack", "ipam.vlan", "circuits.circuit", "virtualization.virtualmachine" >>

\* slip: the entry's 'name' is returned, not its 'endpoint'
_endpoint_for_type_Name(object_type) == catalog[object_type].name

_endpoint_for_type(object_type) == catalog[object_type].endpoint

-----------------------------------------------------------------------------
(* Strings. *)

\* sep in s
Contains(s, sep) ==
    \E i \in 1..(Len(s) - Len(sep) + 1) : SubSeq(s, i, i + Len(sep) - 1) = sep

\* s.split(sep): the leftmost, non-overlapping occurrences of sep cut s
RECURSIVE SplitFrom(_, _, _, _)
SplitFrom(s, sep, start, i) ==
    IF i + Len(sep) - 1 > Len(s)
    THEN << SubSeq(s, start, Len(s)) >>
    ELSE IF SubSeq(s, i, i + Len(sep) - 1) = sep
         THEN << SubSeq(s, start, i - 1) >>
              \o SplitFrom(s, sep, i + Len(sep), i + Len(sep))
         ELSE SplitFrom(s, sep, start, i + 1)

Split(s, sep) == SplitFrom(s, sep, 1, 1)

\* sep.join(parts)
RECURSIVE Join(_, _)
Join(sep, parts) ==
    IF parts = <<>> THEN ""
    ELSE IF Len(parts) = 1 THEN parts[1]
    ELSE parts[1] \o sep \o Join(sep, Tail(parts))

Whitespace == {" ", "\t", "\n", "\r"}

\* s.strip()
RECURSIVE Strip(_)
Strip(s) ==
    IF s = "" THEN ""
    ELSE IF SubSeq(s, 1, 1) \in Whitespace THEN Strip(SubSeq(s, 2, Len(s)))
    ELSE IF SubSeq(s, Len(s), Len(s)) \in Whitespace THEN Strip(SubSeq(s, 1, Len(s) - 1))
    ELSE s

-----------------------------------------------------------------------------
(* Errors and outcomes. *)

\* a ValueError whose message starts with 'text' and quotes the strings 'quoted'
ValueError(text, quoted) == [exc |-> "ValueError", text |-> text, quoted |-> quoted]
\* what the backend client raises
BackendError == [exc |-> "BackendError", text |-> "backend call failed", quoted |-> <<>>]

\* what a method call on the unset handle (None) raises
AttributeError ==
    [exc |-> "AttributeError", text |-> "'NoneType' object has no attribute",
     quoted |-> <<>>]

Returned(v) == [kind |-> "return", value |-> v]
Raised(e) == [kind |-> "raise", error |-> e]
NoOutcome == [kind |-> "none"]

-----------------------------------------------------------------------------
(* sorted(NETBOX_OBJECT_TYPES.keys()) and the unknown-type error. *)

\* the characters of the catalog keys (and a few more), by code point
CodePoints == "-./0123456789_abcdefghijklmnopqrstuvwxyz"
CodePoint(c) == CHOOSE i \in 1..Len(CodePoints) : SubSeq(CodePoints, i, i) = c

\* a < b for Python strings: the first differing character decides, a proper
\* prefix comes first
RECURSIVE StrLess(_, _)
StrLess(a, b) ==
    IF b = "" THEN FALSE
    ELSE IF a = "" THEN TRUE
    ELSE IF SubSeq(a, 1, 1) = SubSeq(b, 1, 1)
         THEN StrLess(SubSeq(a, 2, Len(a)), SubSeq(b, 2, Len(b)))
         ELSE CodePoint(SubSeq(a, 1, 1)) < CodePoint(SubSeq(b, 1, 1))

\* sorted(S) for a set of strings: the keys below the middle key, the middle
\* key, the keys above it
RECURSIVE sorted(_)
sorted(S) ==
    IF S = {} THEN <<>>
    ELSE LET middle == CHOOSE x \in S :
                          Cardinality({ y \in S : StrLess(y, x) }) = Cardinality(S) \div 2
         IN sorted({ y \in S : StrLess(y, middle) })
            \o << middle >>
            \o sorted({ y \in S : StrLess(middle, y) })

\* f"- {t}" for t in sorted(types.keys()), before the lines are joined
Listing(types) ==
    LET keys == sorted(DOMAIN types)
    IN [i \in 1..Len(keys) |-> "- " \o keys[i]] \o <<>>

\* the listing of the catalog as imported, worked out once
ImportedListing == Listing(NETBOX_OBJECT_TYPES)

\* valid_types: one "- key" line per key the catalog has now
valid_types ==
    IF catalog = NETBOX_OBJECT_TYPES THEN ImportedListing ELSE Listing(catalog)

\* ValueError("Invalid object_type ... Must be one of:\n{valid_types}"); only
\* netbox_search_objects puts the rejected key into the message
InvalidObjectType(quoted) ==
    [exc |-> "ValueError", text |-> "Invalid object_type", quoted |-> quoted,
     listed |-> valid_types]

-----------------------------------------------------------------------------
(* validate_filters *)

\* slip: "gte" left out of the set
VALID_SUFFIXES_NoGte ==
    { "n", "ic", "nic", "isw", "nisw", "iew", "niew", "ie", "nie",
      "empty", "regex", "iregex", "lt", "lte", "gt", "in" }

VALID_SUFFIXES ==
    { "n", "ic", "nic", "isw", "nisw", "iew", "niew", "ie", "nie",
      "empty", "regex", "iregex", "lt", "lte", "gt", "gte", "in" }

SPECIAL_PARAMETERS == { "limit", "offset", "fields", "q" }

\* slip: only keys of three or more segments are blocked
KeyRejected_MultiHopOnly(filter_name) ==
    IF filter_name \in SPECIAL_PARAMETERS THEN FALSE
    ELSE IF ~Contains(filter_name, "__") THEN FALSE
    ELSE Len(Split(filter_name, "__")) > 2

\* slip: only the final segment is looked at, not the number of segments
KeyRejected_FinalSegmentOnly(filter_name) ==
    IF filter_name \in SPECIAL_PARAMETERS THEN FALSE
    ELSE IF ~Contains(filter_name, "__") THEN FALSE
    ELSE LET parts == Split(filter_name, "__") IN
         parts[Len(parts)] \notin VALID_SUFFIXES

\* one turn of the loop over the keys: TRUE when this key makes validate_filters raise
KeyRejected(filter_name) ==
    IF filter_name \in SPECIAL_PARAMETERS THEN FALSE
    ELSE IF ~Contains(filter_name, "__") THEN FALSE
    ELSE LET parts == Split(filter_name, "__") IN
         IF Len(parts) = 2 /\ parts[Len(parts)] \in VALID_SUFFIXES THEN FALSE
         ELSE Len(parts) >= 2

\* slip: the loop returns after looking at the first key
validate_filters_FirstKeyOnly(filters) ==
    IF filters # <<>> /\ KeyRejected(filters[1][1])
    THEN Raised(ValueError("Invalid filter", << filters[1][1] >>))
    ELSE Returned(NoneV)

\* validate_filters(filters): returns None, or raises at the first bad key
validate_filters(filters) ==
    IF \E i \in 1..Len(filters) : KeyRejected(filters[i][1])
    THEN LET first == CHOOSE i \in 1..Len(filters) :
                        /\ KeyRejected(filters[i][1])
                        /\ \A j \in 1..(i - 1) : ~KeyRejected(filters[j][1])
         IN Raised(ValueError("Invalid filter", << filters[first][1] >>))
    ELSE Returned(NoneV)

-----------------------------------------------------------------------------
(* The backend client, as the handlers consume it: get(path, params) answers *)
(* with a parsed body or raises.                                             *)

BackendReplies == { "raise", "bare", "page" }

\* the parsed body of a get on 'endpoint': a page of that endpoint's objects
\* ("page"), or a body without a 'results' key ("bare")
ResponseBody(endpoint, reply) ==
    IF reply = "page"
    THEN << <<"count", PyInt(1)>>,
            <<"results", PyList(<< [endpoint |-> endpoint, id |-> 1] >>)>> >>
    ELSE << <<"detail", PyStr("no page")>> >>

\* the request netbox.get(endpoint, params=params) puts on the wire
GetRequest(endpoint, params) == [method |-> "get", endpoint |-> endpoint, params |-> params]

-----------------------------------------------------------------------------
(* The declared argument constraints.  The tool layer validates a call's     *)
(* arguments against them before the handler's body runs.                    *)

\* slip: Field(le=100) only, the lower bound forgotten
LimitField_NoLowerBound(limit) == limit <= 100

\* limit: Annotated[int, Field(default=5, ge=1, le=100)]
LimitField(limit) == limit >= 1 /\ limit <= 100

\* offset: Annotated[int, Field(default=0, ge=0)]
OffsetField(offset) == offset >= 0

\* the error of a call whose arguments 'args' break their constraints
ValidationError(args) ==
    [exc |-> "ValidationError", text |-> "Input validation error", quoted |-> args]

-----------------------------------------------------------------------------
(* netbox_get_objects *)

\* slip: {"limit": limit, "offset": offset, **filters}, the filters' values win
PaginationParams_FiltersWin(filters, limit, offset) ==
    LET withLimit == IF DictHas(filters, "limit") THEN filters
                     ELSE DictSet(filters, "limit", PyInt(limit))
    IN IF DictHas(withLimit, "offset") THEN withLimit
       ELSE DictSet(withLimit, "offset", PyInt(offset))

\* params = filters.copy(); params["limit"] = limit; params["offset"] = offset
PaginationParams(filters, limit, offset) ==
    DictSet(DictSet(filters, "limit", PyInt(limit)), "offset", PyInt(offset))

\* slip: 'if fields is not None', so [] sends fields=""
FieldsParam_NotNone(params, fields) ==
    IF fields # NoneV THEN DictSet(params, "fields", PyStr(Join(",", fields[2])))
    ELSE params

\* slip: the names are joined last to first
FieldsParam_Reversed(params, fields) ==
    IF Truthy(fields)
    THEN DictSet(params, "fields",
                 PyStr(Join(",", [i \in 1..Len(fields[2]) |->
                                     fields[2][Len(fields[2]) + 1 - i]])))
    ELSE params

\* if fields: params["fields"] = ",".join(fields)
FieldsParam(params, fields) ==
    IF Truthy(fields) THEN DictSet(params, "fields", PyStr(Join(",", fields[2])))
    ELSE params

\* slip: the marker is set without looking at the flag
BriefParam_Unconditional(params, brief) == DictSet(params, "brief", PyStr("1"))

\* if brief: params["brief"] = "1"
BriefParam(params, brief) ==
    IF brief THEN DictSet(params, "brief", PyStr("1")) ELSE params

\* slip: of a list only the first name is sent
OrderingParam_FirstOnly(params, ordering) ==
    IF ~Truthy(ordering) THEN params
    ELSE LET joined == IF ordering[1] = "list" THEN ordering[2][1] ELSE ordering[2]
         IN IF Strip(joined) # "" THEN DictSet(params, "ordering", PyStr(joined))
            ELSE params

\* slip: no test for a blank string
OrderingParam_NoBlankCheck(params, ordering) ==
    IF ~Truthy(ordering) THEN params
    ELSE DictSet(params, "ordering",
                 PyStr(IF ordering[1] = "list" THEN Join(",", ordering[2])
                       ELSE ordering[2]))

\* if ordering: join a list, then set the parameter unless it is blank
OrderingParam(params, ordering) ==
    IF ~Truthy(ordering) THEN params
    ELSE LET joined == IF ordering[1] = "list" THEN Join(",", ordering[2])
                       ELSE ordering[2]
         IN IF Strip(joined) # "" THEN DictSet(params, "ordering", PyStr(joined))
            ELSE params

\* what one handler run leaves behind
Ran(cs, rs, out) == [calls |-> cs, replies |-> rs, outcome |-> out]

\* slip: a failed get is turned into an empty result
ReturnGet_Swallow(endpoint, params, reply) ==
    Ran(<< GetRequest(endpoint, params) >>, << reply >>,
        IF reply = "raise" THEN Returned(PyDict(<<>>))
        ELSE Returned(PyDict(ResponseBody(endpoint, reply))))

\* slip: a failed get is tried a second time
ReturnGet_RetryOnce(endpoint, params, reply) ==
    IF reply = "raise"
    THEN Ran(<< GetRequest(endpoint, params), GetRequest(endpoint, params) >>,
             << "raise", "raise" >>, Raised(BackendError))
    ELSE Ran(<< GetRequest(endpoint, params) >>, << reply >>,
             Returned(PyDict(ResponseBody(endpoint, reply))))

\* return netbox.get(endpoint, params=params), the backend answering 'reply'
ReturnGet(endpoint, params, reply) ==
    IF netbox = NoneV THEN Ran(<<>>, <<>>, Raised(AttributeError))
    ELSE Ran(<< GetRequest(endpoint, params) >>, << reply >>,
             IF reply = "raise" THEN Raised(BackendError)
             ELSE Returned(PyDict(ResponseBody(endpoint, reply))))

netbox_get_objects(object_type, filters, fields, brief, limit, offset, ordering, reply) ==
    IF object_type \notin DOMAIN catalog
    THEN Ran(<<>>, <<>>, Raised(InvalidObjectType(<<>>)))
    ELSE LET checked == validate_filters(filters) IN
         IF checked.kind = "raise" THEN Ran(<<>>, <<>>, checked)
         ELSE LET endpoint == _endpoint_for_type(object_type)
                  params == OrderingParam(
                              BriefParam(
                                FieldsParam(
                                  PaginationParams(filters, limit, offset),
                                  fields),
                                brief),
                              ordering)
              IN ReturnGet(endpoint, params, reply)

-----------------------------------------------------------------------------
(* netbox_get_object_by_id *)

netbox_get_object_by_id(object_type, object_id, fields, brief, reply) ==
    IF object_type \notin DOMAIN catalog
    THEN Ran(<<>>, <<>>, Raised(InvalidObjectType(<<>>)))
    ELSE LET endpoint == _endpoint_for_type(object_type) \o "/" \o ToString(object_id)
             params == BriefParam(FieldsParam(<<>>, fields), brief)
         IN ReturnGet(endpoint, params, reply)

-----------------------------------------------------------------------------
(* netbox_get_changelogs, netbox_create_object, netbox_update_object,        *)
(* netbox_delete_object.  The backend's create, update and delete answer     *)
(* "ok" or raise.                                                            *)

WriteReplies == { "raise", "ok" }
PyBool(b) == <<"bool", b>>

CreateRequest(endpoint, data) == [method |-> "create", endpoint |-> endpoint, body |-> data]
UpdateRequest(endpoint, id, data) ==
    [method |-> "update", endpoint |-> endpoint, id |-> id, body |-> data]
DeleteRequest(endpoint, id) == [method |-> "delete", endpoint |-> endpoint, id |-> id]

\* return netbox.create(endpoint, data): the created object is the body with an id
ReturnCreate(endpoint, data, reply) ==
    IF netbox = NoneV THEN Ran(<<>>, <<>>, Raised(AttributeError))
    ELSE Ran(<< CreateRequest(endpoint, data) >>, << reply >>,
             IF reply = "raise" THEN Raised(BackendError)
             ELSE Returned(PyDict(DictSet(data, "id", PyInt(1)))))

\* return netbox.update(endpoint, object_id, data)
ReturnUpdate(endpoint, id, data, reply) ==
    IF netbox = NoneV THEN Ran(<<>>, <<>>, Raised(AttributeError))
    ELSE Ran(<< UpdateRequest(endpoint, id, data) >>, << reply >>,
             IF reply = "raise" THEN Raised(BackendError)
             ELSE Returned(PyDict(DictSet(data, "id", PyInt(id)))))

\* return netbox.delete(endpoint, object_id)
ReturnDelete(endpoint, id, reply) ==
    IF netbox = NoneV THEN Ran(<<>>, <<>>, Raised(AttributeError))
    ELSE Ran(<< DeleteRequest(endpoint, id) >>, << reply >>,
             IF reply = "raise" THEN Raised(BackendError)
             ELSE Returned(PyBool(TRUE)))

netbox_get_changelogs(filters, reply) == ReturnGet("core/object-changes", filters, reply)

netbox_create_object(object_type, data, reply) ==
    IF object_type \notin DOMAIN catalog
    THEN Ran(<<>>, <<>>, Raised(InvalidObjectType(<<>>)))
    ELSE ReturnCreate(_endpoint_for_type(object_type), data, reply)

netbox_update_object(object_type, object_id, data, reply) ==
    IF object_type \notin DOMAIN catalog
    THEN Ran(<<>>, <<>>, Raised(InvalidObjectType(<<>>)))
    ELSE ReturnUpdate(_endpoint_for_type(object_type), object_id, data, reply)

\* slip: the request goes out before the type key is looked at
netbox_delete_object_Fallback(object_type, object_id, reply) ==
    IF object_type \notin DOMAIN catalog
    THEN Ran(<< DeleteRequest(object_type, object_id) >>, << reply >>,
             Raised(InvalidObjectType(<<>>)))
    ELSE ReturnDelete(_endpoint_for_type(object_type), object_id, reply)

netbox_delete_object(object_type, object_id, reply) ==
    IF object_type \notin DOMAIN catalog
    THEN Ran(<<>>, <<>>, Raised(InvalidObjectType(<<>>)))
    ELSE ReturnDelete(_endpoint_for_type(object_type), object_id, reply)

-----------------------------------------------------------------------------
(* The type-specific convenience wrappers: netbox_create_X, netbox_update_X  *)
(* and netbox_delete_X.  Every one has the body of its kind; what differs is *)
(* the endpoint literal and, for the create wrappers, the named parameters:  *)
(* 'fields' are the keys of the payload literal, 'optional' the parameters   *)
(* put into the payload only when given ('if slug: payload[...] = slug').    *)

CreateWrappers ==
    { [name |-> "netbox_create_site", endpoint |-> "dcim/sites",
       fields |-> <<"name", "slug", "status">>, optional |-> <<>>],
      [name |-> "netbox_create_tenant", endpoint |-> "tenancy/tenants",
       fields |-> <<"name", "slug">>, optional |-> <<>>],
      [name |-> "netbox_create_tenant_group", endpoint |-> "tenancy/tenant-groups",
       fields |-> <<"name", "slug">>, optional |-> <<>>],
      [name |-> "netbox_create_tag", endpoint |-> "extras/tags",
       fields |-> <<"name">>, optional |-> <<"slug", "color">>],
      [name |-> "netbox_create_vlan", endpoint |-> "ipam/vlans",
       fields |-> <<"name", "vid", "status">>, optional |-> <<>>],
      [name |-> "netbox_create_vlan_group", endpoint |-> "ipam/vlan-groups",
       fields |-> <<"name", "slug">>, optional |-> <<>>],
      [name |-> "netbox_create_region", endpoint |-> "dcim/regions",
       fields |-> <<"name", "slug">>, optional |-> <<>>],
      [name |-> "netbox_create_location", endpoint |-> "dcim/locations",
       fields |-> <<"name", "site">>, optional |-> <<>>],
      [name |-> "netbox_create_vrf", endpoint |-> "ipam/vrfs",
       fields |-> <<"name">>, optional |-> <<>>],
      [name |-> "netbox_create_prefix", endpoint |-> "ipam/prefixes",
       fields |-> <<"prefix">>, optional |-> <<>>],
      [name |-> "netbox_create_ip_address", endpoint |-> "ipam/ip-addresses",
       fields |-> <<"address">>, optional |-> <<>>],
      [name |-> "netbox_create_ip_range", endpoint |-> "ipam/ip-ranges",
       fields |-> <<"start_address", "end_address">>, optional |-> <<>>],
      [name |-> "netbox_create_device", endpoint |-> "dcim/devices",
       fields |-> <<"name", "device_type", "site">>, optional |-> <<>>],
      [name |-> "netbox_create_interface", endpoint |-> "dcim/interfaces",
       fields |-> <<"name", "device", "type">>, optional |-> <<>>],
      [name |-> "netbox_create_device_type", endpoint |-> "dcim/device-types",
       fields |-> <<"manufacturer", "model", "slug">>, optional |-> <<>>],
      [name |-> "netbox_create_manufacturer", endpoint |-> "dcim/manufacturers",
       fields |-> <<"name", "slug">>, optional |-> <<>>],
      [name |-> "netbox_create_rack", endpoint |-> "dcim/racks",
       fields |-> <<"name", "site">>, optional |-> <<>>],
      [name |-> "netbox_create_rack_role", endpoint |-> "dcim/rack-roles",
       fields |-> <<"name", "slug">>, optional |-> <<>>],
      [name |-> "netbox_create_cable", endpoint |-> "dcim/cables",
       fields |-> <<"termination_a_type", "termination_a_id",
                   "termination_b_type", "termination_b_id">>,
       optional |-> <<>>],
      [name |-> "netbox_create_circuit", endpoint |-> "circuits/circuits",
       fields |-> <<"cid", "provider", "type">>, optional |-> <<>>],
      [name |-> "netbox_create_provider", endpoint |-> "circuits/providers",
       fields |-> <<"name", "slug">>, optional |-> <<>>],
      [name |-> "netbox_create_circuit_type", endpoint |-> "circuits/circuit-types",
       fields |-> <<"name", "slug">>, optional |-> <<>>],
      [name |-> "netbox_create_virtual_machine", endpoint |-> "virtualization/virtual-machines",
       fields |-> <<"name", "cluster">>, optional |-> <<>>],
      [name |-> "netbox_create_cluster", endpoint |-> "virtualization/clusters",
       fields |-> <<"name", "type">>, optional |-> <<>>] }

UpdateWrappers ==
    { [name |-> "netbox_update_site", endpoint |-> "dcim/sites"],
      [name |-> "netbox_update_tenant", endpoint |-> "tenancy/tenants"],
      [name |-> "netbox_update_tenant_group", endpoint |-> "tenancy/tenant-groups"],
      [name |-> "netbox_update_tag", endpoint |-> "extras/tags"],
      [name |-> "netbox_update_vlan", endpoint |-> "ipam/vlans"],
      [name |-> "netbox_update_vlan_group", endpoint |-> "ipam/vlan-groups"],
      [name |-> "netbox_update_region", endpoint |-> "dcim/regions"],
      [name |-> "netbox_update_location", endpoint |-> "dcim/locations"],
      [name |-> "netbox_update_vrf", endpoint |-> "ipam/vrfs"],
      [name |-> "netbox_update_prefix", endpoint |-> "ipam/prefixes"],
      [name |-> "netbox_update_ip_address", endpoint |-> "ipam/ip-addresses"],
      [name |-> "netbox_update_ip_range", endpoint |-> "ipam/ip-ranges"],
      [name |-> "netbox_update_device", endpoint |-> "dcim/devices"],
      [name |-> "netbox_update_interface", endpoint |-> "dcim/interfaces"],
      [name |-> "netbox_update_device_type", endpoint |-> "dcim/device-types"],
      [name |-> "netbox_update_manufacturer", endpoint |-> "dcim/manufacturers"],
      [name |-> "netbox_update_rack", endpoint |-> "dcim/racks"],
      [name |-> "netbox_update_circuit", endpoint |-> "circuits/circuits"],
      [name |-> "netbox_update_provider", endpoint |-> "circuits/providers"],
      [name |-> "netbox_update_circuit_type", endpoint |-> "circuits/circuit-types"],
      [name |-> "netbox_update_virtual_machine", endpoint |-> "virtualization/virtual-machines"],
      [name |-> "netbox_update_cluster", endpoint |-> "virtualization/clusters"] }

DeleteWrappers ==
    { [name |-> "netbox_delete_site", endpoint |-> "dcim/sites"],
      [name |-> "netbox_delete_tenant", endpoint |-> "tenancy/tenants"],
      [name |-> "netbox_delete_tenant_group", endpoint |-> "tenancy/tenant-groups"],
      [name |-> "netbox_delete_tag", endpoint |-> "extras/tags"],
      [name |-> "netbox_delete_vlan", endpoint |-> "ipam/vlans"],
      [name |-> "netbox_delete_vlan_group", endpoint |-> "ipam/vlan-groups"],
      [name |-> "netbox_delete_region", endpoint |-> "dcim/regions"],
      [name |-> "netbox_delete_location", endpoint |-> "dcim/locations"],
      [name |-> "netbox_delete_vrf", endpoint |-> "ipam/vrfs"],
      [name |-> "netbox_delete_prefix", endpoint |-> "ipam/prefixes"],
      [name |-> "netbox_delete_ip_address", endpoint |-> "ipam/ip-addresses"],
      [name |-> "netbox_delete_ip_range", endpoint |-> "ipam/ip-ranges"],
      [name |-> "netbox_delete_device", endpoint |-> "dcim/devices"],
      [name |-> "netbox_delete_interface", endpoint |-> "dcim/interfaces"],
      [name |-> "netbox_delete_device_type", endpoint |-> "dcim/device-types"],
      [name |-> "netbox_delete_manufacturer", endpoint |-> "dcim/manufacturers"],
      [name |-> "netbox_delete_rack", endpoint |-> "dcim/racks"],
      [name |-> "netbox_delete_cable", endpoint |-> "dcim/cables"],
      [name |-> "netbox_delete_circuit", endpoint |-> "circuits/circuits"],
      [name |-> "netbox_delete_provider", endpoint |-> "circuits/providers"],
      [name |-> "netbox_delete_circuit_type", endpoint |-> "circuits/circuit-types"],
      [name |-> "netbox_delete_virtual_machine", endpoint |-> "virtualization/virtual-machines"],
      [name |-> "netbox_delete_cluster", endpoint |-> "virtualization/clusters"] }

\* d.update(other): the items of 'other' set in d, in order
RECURSIVE DictUpdate(_, _)
DictUpdate(d, other) ==
    IF other = <<>> THEN d
    ELSE DictUpdate(DictSet(d, other[1][1], other[1][2]), Tail(other))

\* payload = {'name': name, ...}: the payload literal from the arguments
PayloadLiteral(fields, args) ==
    [i \in 1..Len(fields) |-> << fields[i], DictGet(args, fields[i]) >>]

\* if slug: payload['slug'] = slug, for each optional parameter in turn
RECURSIVE SetIfGiven(_, _, _)
SetIfGiven(payload, optional, args) ==
    IF optional = <<>> THEN payload
    ELSE SetIfGiven(IF Truthy(DictGet(args, Head(optional)))
                    THEN DictSet(payload, Head(optional), DictGet(args, Head(optional)))
                    ELSE payload,
                    Tail(optional), args)

\* slip: the named arguments win over data (payload.setdefault for each item)
UpdateWith_NamedWin(payload, data) ==
    IF Truthy(data)
    THEN [payload |-> DictUpdate(data[2], payload), data |-> data]
    ELSE [payload |-> payload, data |-> data]

\* if data: payload.update(data): what the two objects hold afterwards (data
\* is only read)
UpdateWith(payload, data) ==
    IF Truthy(data)
    THEN [payload |-> DictUpdate(payload, data[2]), data |-> data]
    ELSE [payload |-> payload, data |-> data]

\* netbox_create_site, netbox_create_tenant, ...: X is the wrapper's entry.
\* 'data' in the result is the caller's mapping as the handler leaves it.
netbox_create_X(X, args, data, reply) ==
    LET merged == UpdateWith(SetIfGiven(PayloadLiteral(X.fields, args),
                                        X.optional, args),
                             data)
        ran == ReturnCreate(X.endpoint, merged.payload, reply)
    IN [calls |-> ran.calls, replies |-> ran.replies, outcome |-> ran.outcome,
        data |-> merged.data]

\* netbox_update_site, ...: return netbox.update('<endpoint>', id, data)
netbox_update_X(X, id, data, reply) == ReturnUpdate(X.endpoint, id, data, reply)

\* slip: the id is put into the path as well
netbox_delete_X_IdInPath(X, id, reply) ==
    ReturnDelete(X.endpoint \o "/" \o ToString(id), id, reply)

\* netbox_delete_site, ...: return netbox.delete('<endpoint>', id)
netbox_delete_X(X, id, reply) == ReturnDelete(X.endpoint, id, reply)

-----------------------------------------------------------------------------
(* netbox_search_objects *)

\* search_types: the default list when object_types is None
SearchTypes(object_types) ==
    IF object_types = NoneV THEN default_types ELSE object_types[2]

\* slip: only the first candidate is checked against the catalog
UnknownTypes_FirstOnly(search_types) ==
    { i \in 1..Len(search_types) :
        i = 1 /\ search_types[i] \notin DOMAIN catalog }

\* the validation loop: the first key that is not in the catalog, if any
UnknownTypes(search_types) ==
    { i \in 1..Len(search_types) : search_types[i] \notin DOMAIN catalog }

FirstUnknown(search_types) ==
    search_types[CHOOSE i \in UnknownTypes(search_types) :
                    \A j \in UnknownTypes(search_types) : i <= j]

\* slip: results = {}, so only the types that answered get an entry
EmptyResults_NotPrefilled(search_types) == <<>>

\* results = {obj_type: [] for obj_type in search_types}
RECURSIVE EmptyResults(_)
EmptyResults(search_types) ==
    IF search_types = <<>> THEN <<>>
    ELSE DictSet(EmptyResults(SubSeq(search_types, 1, Len(search_types) - 1)),
                 search_types[Len(search_types)], PyList(<<>>))

\* slip: the per-type query goes out without the caller's limit
SearchParams_NoLimit(query, fields, limit) ==
    << <<"q", PyStr(query)>>,
       <<"fields", IF Truthy(fields) THEN PyStr(Join(",", fields[2])) ELSE NoneV>> >>

\* the params of one per-type query
SearchParams(query, fields, limit) ==
    << <<"q", PyStr(query)>>,
       <<"limit", PyInt(limit)>>,
       <<"fields", IF Truthy(fields) THEN PyStr(Join(",", fields[2])) ELSE NoneV>> >>

\* slip: the whole body is stored, the 'results' list is not taken out of it
SearchOne_StoresBody(res, obj_type, reply) ==
    IF reply = "raise" THEN res
    ELSE DictSet(res, obj_type,
                 PyDict(ResponseBody(_endpoint_for_type(obj_type), reply)))

\* slip: a failed query resets the type's entry to []
SearchOne_ResetsOnFailure(res, obj_type, reply) ==
    IF reply = "raise" THEN DictSet(res, obj_type, PyList(<<>>))
    ELSE DictSet(res, obj_type,
                 DictGetOr(ResponseBody(_endpoint_for_type(obj_type), reply),
                           "results", PyList(<<>>)))

\* slip: a failed query throws away what the earlier queries returned
SearchOne_FailureClears(res, obj_type, reply) ==
    IF reply = "raise" THEN [i \in 1..Len(res) |-> << res[i][1], PyList(<<>>) >>]
    ELSE DictSet(res, obj_type,
                 DictGetOr(ResponseBody(_endpoint_for_type(obj_type), reply),
                           "results", PyList(<<>>)))

\* the try block of the result loop for obj_type: the entry is replaced by the
\* body's 'results' ([] without that key); a raised exception leaves it alone
SearchOne(res, obj_type, reply) ==
    IF reply = "raise" THEN res
    ELSE DictSet(res, obj_type,
                 DictGetOr(ResponseBody(_endpoint_for_type(obj_type), reply),
                           "results", PyList(<<>>)))

\* the result loop from 'res' on: the candidates 'search_types', answered by
\* 'rs' in the same order
RECURSIVE SearchLoop(_, _, _)
SearchLoop(res, search_types, rs) ==
    IF search_types = <<>> THEN res
    ELSE SearchLoop(SearchOne(res, Head(search_types), Head(rs)),
                    Tail(search_types), Tail(rs))

\* the mapping a search over 'search_types' returns when rs answers its queries
SearchAll(search_types, rs) ==
    SearchLoop(EmptyResults(search_types), search_types, rs)

-----------------------------------------------------------------------------
(* The inputs the tools are called with. *)

TypeKeys == { "dcim.site", "ipam.ipaddress", "not.a.type" }

\* lists of at most n elements of S
SeqsUpTo(S, n) == UNION { [1..k -> S] : k \in 0..n }

\* the items a filters dict is made of
FilterItems ==
    { <<"limit", PyInt(999)>>, <<"offset", PyInt(999)>>, <<"fields", PyStr("serial")>>,
      <<"brief", PyInt(1)>>, <<"name__ic", PyStr("sw")>>, <<"device__site_id", PyInt(1)>>,
      <<"ordering", PyStr("-id")>> }

\* dicts: no key twice
IsDict(d) == \A i, j \in 1..Len(d) : d[i][1] = d[j][1] => i = j

FilterDicts == { d \in SeqsUpTo(FilterItems, MaxFilters) : IsDict(d) }

FieldsArgs == { NoneV, PyList(<<>>), PyList(<<"id", "name">>) }
LimitArgs == { 0, 5, 100, 101 }
OffsetArgs == { -1, 0, 10 }
OrderingArgs ==
    { NoneV, PyStr(""), PyStr(" "), PyStr("name"),
      PyList(<<>>), PyList(<<"facility", "-name">>) }
IdArgs == { 7 }
QueryArgs == { "switch", "10.0.0.1" }
\* the write operations are tried on every catalog key and on an unknown one
AnyTypeKeys == DOMAIN NETBOX_OBJECT_TYPES \cup { "not.a.type" }
DataArgs == { <<>>, << <<"name", PyStr("NYC")>>, <<"slug", PyStr("nyc")>> >> }
TypeListArgs == { NoneV } \cup { PyList(l) : l \in SeqsUpTo(TypeKeys, MaxTypes) }

\* the values a named parameter of a create wrapper is given, and those an
\* optional one can have besides
FieldValues == { PyStr("given"), PyInt(2) }
OptionalValues == { NoneV, PyStr("") }

\* the arguments of a create wrapper, by parameter name (defaults filled in)
ArgDicts(X) ==
    LET params == X.fields \o X.optional IN
    { [i \in 1..Len(params) |-> << params[i], v[i] >>] :
        v \in { u \in [1..Len(params) -> FieldValues \cup OptionalValues] :
                  \A i \in 1..Len(X.fields) : u[i] \in FieldValues } }

\* the data mappings a create wrapper is given: none, empty, one that sets a
\* parameter's key or a key of its own, and one that does both
WrapperData(X) ==
    { NoneV, PyDict(<<>>) }
    \cup { PyDict(<< << k, PyStr("from data") >> >>) :
             k \in { "description" } \cup { X.fields[i] : i \in 1..Len(X.fields) }
                   \cup { X.optional[i] : i \in 1..Len(X.optional) } }
    \cup { PyDict(<< << "description", PyStr("from data") >>,
                     << X.fields[1], PyStr("from data") >> >>) }

-----------------------------------------------------------------------------
(* The process: main, then the transport serving one tool invocation at a     *)
(* time.                                                                     *)

\* the module as imported: the catalog and the default list hold their
\* literals, netbox = None
ModuleImported ==
    /\ netbox = NoneV
    /\ catalog = NETBOX_OBJECT_TYPES
    /\ default_types = DEFAULT_SEARCH_TYPES
    /\ exit_status = NoneV

\* no handler is running
NoFrame ==
    /\ inv = [op |-> "none"]
    /\ calls = <<>>
    /\ replies = <<>>
    /\ outcome = NoOutcome
    /\ results = <<>>
    /\ idx = 0

\* the process as main is entered
Init ==
    /\ pc = "main"
    /\ NoFrame
    /\ ModuleImported
    /\ earlier = <<>>

\* the NetBoxRestClient main constructs
Client == << "NetBoxRestClient" >>

\* what the command line, the settings, the client constructor and mcp.run
\* can do
CliResults == { "ok", "usage", "help" }
StepResults == { "ok", "raise" }

\* sys.exit(status)
Exit(status) ==
    /\ pc' = "exited"
    /\ exit_status' = status
    /\ UNCHANGED <<inv, calls, replies, outcome, results, idx,
                   netbox, catalog, default_types, earlier>>

\* a step of main that only moves on
MainGoes(next) ==
    /\ pc' = next
    /\ UNCHANGED <<inv, calls, replies, outcome, results, idx,
                   netbox, catalog, default_types, exit_status, earlier>>

\* cli_overlay = parse_cli_args(): argparse exits with 2 on a usage error and
\* with 0 after --help
ParseCliArgs ==
    /\ pc = "main"
    /\ \E cli \in CliResults :
          IF cli = "ok" THEN MainGoes("settings")
          ELSE Exit(IF cli = "usage" THEN 2 ELSE 0)

\* settings = Settings(**cli_overlay), sys.exit(1) on any exception
LoadSettings ==
    /\ pc = "settings"
    /\ \E loaded \in StepResults :
          IF loaded = "ok" THEN MainGoes("client") ELSE Exit(1)

\* slip: the failure is logged and main goes on without a client
CreateClient_LogsOnly ==
    /\ pc = "client"
    /\ \E made \in StepResults :
          /\ netbox' = IF made = "ok" THEN Client ELSE NoneV
          /\ pc' = "transport"
          /\ UNCHANGED <<inv, calls, replies, outcome, results, idx,
                         catalog, default_types, exit_status, earlier>>

\* netbox = NetBoxRestClient(...), sys.exit(1) on any exception
CreateClient ==
    /\ pc = "client"
    /\ \E made \in StepResults :
          IF made = "ok"
          THEN /\ netbox' = Client
               /\ pc' = "transport"
               /\ UNCHANGED <<inv, calls, replies, outcome, results, idx,
                              catalog, default_types, exit_status, earlier>>
          ELSE Exit(1)

\* mcp.run(...) starts serving, or raises and main exits with 1
RunTransport ==
    /\ pc = "transport"
    /\ \E started \in StepResults :
          IF started = "ok" THEN MainGoes("idle") ELSE Exit(1)

\* mcp.run(...) returns when the transport is closed (main returns, status 0)
\* or raises (sys.exit(1))
StopTransport ==
    /\ pc = "idle"
    /\ \E stopped \in StepResults :
          Exit(IF stopped = "ok" THEN 0 ELSE 1)

\* slip: the search pops the candidates off the list it iterates, which is
\* the module's default list itself when object_types is not given
HandlerKeepsGlobals_PopsDefaults ==
    /\ default_types' = IF default_types = <<>> THEN <<>> ELSE Tail(default_types)
    /\ UNCHANGED <<netbox, catalog, exit_status, earlier>>

\* slip: a handler that closes the client and resets the module-level handle
HandlerKeepsGlobals_DropsHandle ==
    /\ netbox' = NoneV
    /\ UNCHANGED <<catalog, default_types, exit_status, earlier>>

\* the handlers have no 'global' statement and write through no module-level
\* name (the history is written between calls only)
HandlerKeepsGlobals ==
    UNCHANGED <<netbox, catalog, default_types, exit_status, earlier>>

Finish(ran) ==
    /\ calls' = ran.calls
    /\ replies' = ran.replies
    /\ outcome' = ran.outcome
    /\ pc' = "done"
    /\ results' = <<>>
    /\ idx' = 0
    /\ HandlerKeepsGlobals

GetObjects ==
    /\ pc = "idle"
    /\ \E object_type \in TypeKeys, filters \in FilterDicts, fields \in FieldsArgs,
          brief \in BOOLEAN, limit \in LimitArgs, offset \in OffsetArgs,
          ordering \in OrderingArgs, reply \in BackendReplies \ {"bare"} :
          /\ LimitField(limit) /\ OffsetField(offset)
          /\ inv' = [op |-> "netbox_get_objects", object_type |-> object_type,
                     filters |-> filters, fields |-> fields, brief |-> brief,
                     limit |-> limit, offset |-> offset, ordering |-> ordering]
          /\ Finish(netbox_get_objects(object_type, filters, fields, brief,
                                       limit, offset, ordering, reply))

GetObjectById ==
    /\ pc = "idle"
    /\ \E object_type \in TypeKeys, object_id \in IdArgs, fields \in FieldsArgs,
          brief \in BOOLEAN, reply \in BackendReplies \ {"bare"} :
          /\ inv' = [op |-> "netbox_get_object_by_id", object_type |-> object_type,
                     object_id |-> object_id, fields |-> fields, brief |-> brief]
          /\ Finish(netbox_get_object_by_id(object_type, object_id, fields, brief, reply))

GetChangelogs ==
    /\ pc = "idle"
    /\ \E filters \in FilterDicts, reply \in BackendReplies \ {"bare"} :
          /\ inv' = [op |-> "netbox_get_changelogs", filters |-> filters]
          /\ Finish(netbox_get_changelogs(filters, reply))

CreateObject ==
    /\ pc = "idle"
    /\ \E object_type \in AnyTypeKeys, data \in DataArgs, reply \in WriteReplies :
          /\ inv' = [op |-> "netbox_create_object", object_type |-> object_type,
                     data |-> data]
          /\ Finish(netbox_create_object(object_type, data, reply))

UpdateObject ==
    /\ pc = "idle"
    /\ \E object_type \in AnyTypeKeys, object_id \in IdArgs, data \in DataArgs,
          reply \in WriteReplies :
          /\ inv' = [op |-> "netbox_update_object", object_type |-> object_type,
                     object_id |-> object_id, data |-> data]
          /\ Finish(netbox_update_object(object_type, object_id, data, reply))

DeleteObject ==
    /\ pc = "idle"
    /\ \E object_type \in AnyTypeKeys, object_id \in IdArgs, reply \in WriteReplies :
          /\ inv' = [op |-> "netbox_delete_object", object_type |-> object_type,
                     object_id |-> object_id]
          /\ Finish(netbox_delete_object(object_type, object_id, reply))

CreateX ==
    /\ pc = "idle"
    /\ \E X \in CreateWrappers, reply \in WriteReplies :
          \E args \in ArgDicts(X), data \in WrapperData(X) :
              LET ran == netbox_create_X(X, args, data, reply) IN
              /\ inv' = [op |-> X.name, args |-> args, data |-> data,
                         data_after |-> ran.data]
              /\ Finish(ran)

UpdateX ==
    /\ pc = "idle"
    /\ \E X \in UpdateWrappers, id \in IdArgs, data \in DataArgs, reply \in WriteReplies :
          /\ inv' = [op |-> X.name, id |-> id, data |-> data]
          /\ Finish(netbox_update_X(X, id, data, reply))

DeleteX ==
    /\ pc = "idle"
    /\ \E X \in DeleteWrappers, id \in IdArgs, reply \in WriteReplies :
          /\ inv' = [op |-> X.name, id |-> id]
          /\ Finish(netbox_delete_X(X, id, reply))

\* netbox_search_objects up to the result loop: the validation loop raises at
\* the first unknown key, else 'results' is initialised
SearchStart ==
    /\ pc = "idle"
    /\ \E query \in QueryArgs, object_types \in TypeListArgs, fields \in FieldsArgs,
          limit \in LimitArgs :
          /\ LimitField(limit)
          /\ inv' = [op |-> "netbox_search_objects", query |-> query,
                     object_types |-> object_types, fields |-> fields, limit |-> limit]
          /\ LET search_types == SearchTypes(object_types) IN
             IF UnknownTypes(search_types) # {}
             THEN Finish(Ran(<<>>, <<>>,
                     Raised(InvalidObjectType(<< FirstUnknown(search_types) >>))))
             ELSE /\ pc' = "search"
                  /\ results' = EmptyResults(search_types)
                  /\ idx' = 1
                  /\ calls' = <<>>
                  /\ replies' = <<>>
                  /\ outcome' = NoOutcome
                  /\ HandlerKeepsGlobals

\* one turn of the result loop: the backend call for search_types[idx].  The
\* endpoint lookup is inside the try block, so a KeyError from it is swallowed
\* like a backend failure, before any request goes out.
SearchStep ==
    /\ pc = "search"
    /\ idx <= Len(SearchTypes(inv.object_types))
    /\ LET obj_type == SearchTypes(inv.object_types)[idx] IN
       IF netbox = NoneV \/ obj_type \notin DOMAIN catalog
       THEN UNCHANGED <<calls, replies, results>>
       ELSE \E reply \in BackendReplies :
              /\ calls' = Append(calls,
                            GetRequest(_endpoint_for_type(obj_type),
                                       SearchParams(inv.query, inv.fields, inv.limit)))
              /\ replies' = Append(replies, reply)
              /\ results' = SearchOne(results, obj_type, reply)
    /\ idx' = idx + 1
    /\ UNCHANGED <<pc, inv, outcome>>
    /\ HandlerKeepsGlobals

\* return results
SearchReturn ==
    /\ pc = "search"
    /\ idx > Len(SearchTypes(inv.object_types))
    /\ outcome' = Returned(PyDict(results))
    /\ pc' = "done"
    /\ UNCHANGED <<inv, calls, replies, results, idx>>
    /\ HandlerKeepsGlobals

\* a netbox_get_objects call whose limit or offset breaks its constraint:
\* refused with a validation error, the handler's body does not run
RejectGetObjects ==
    /\ pc = "idle"
    /\ \E limit \in LimitArgs, offset \in OffsetArgs :
          /\ ~(LimitField(limit) /\ OffsetField(offset))
          /\ inv' = [op |-> "rejected", tool |-> "netbox_get_objects",
                     limit |-> limit, offset |-> offset]
          /\ Finish(Ran(<<>>, <<>>,
                Raised(ValidationError(
                    (IF LimitField(limit) THEN <<>> ELSE << "limit" >>)
                    \o (IF OffsetField(offset) THEN <<>> ELSE << "offset" >>)))))

\* a netbox_search_objects call whose limit breaks its constraint
RejectSearch ==
    /\ pc = "idle"
    /\ \E limit \in LimitArgs :
          /\ ~LimitField(limit)
          /\ inv' = [op |-> "rejected", tool |-> "netbox_search_objects",
                     limit |-> limit]
          /\ Finish(Ran(<<>>, <<>>, Raised(ValidationError(<< "limit" >>))))

\* the handler's frame is gone; the server awaits the next tool call
AwaitCall ==
    /\ pc = "done"
    /\ pc' = "idle"
    /\ inv' = [op |-> "none"]
    /\ calls' = <<>>
    /\ replies' = <<>>
    /\ outcome' = NoOutcome
    /\ results' = <<>>
    /\ idx' = 0
    /\ UNCHANGED <<netbox, catalog, default_types, exit_status, earlier>>

Next ==
    \/ ParseCliArgs
    \/ LoadSettings
    \/ CreateClient
    \/ RunTransport
    \/ StopTransport
    \/ AwaitCall
    \/ GetObjects
    \/ GetObjectById
    \/ GetChangelogs
    \/ CreateObject
    \/ UpdateObject
    \/ DeleteObject
    \/ CreateX
    \/ UpdateX
    \/ DeleteX
    \/ SearchStart
    \/ SearchStep
    \/ SearchReturn
    \/ RejectGetObjects
    \/ RejectSearch

Spec == Init /\ [][Next]_vars

-----------------------------------------------------------------------------
(* A session: the process serving a few representative calls, with the tools  *)
(* called before the current call on record.                                 *)

SessionFilters ==
    { <<>>, << <<"name__ic", PyStr("sw")>> >>, << <<"device__site_id", PyInt(1)>> >> }
SessionOrderings == { NoneV, PyStr("name") }
SessionReplies == { "raise", "page" }
SessionTypeLists ==
    { NoneV, PyList(<< "ipam.ipaddress", "dcim.site" >>),
      PyList(<< "dcim.site", "not.a.type" >>) }

SessionGetObjects ==
    /\ pc = "idle"
    /\ \E object_type \in TypeKeys, filters \in SessionFilters,
          ordering \in SessionOrderings, reply \in SessionReplies :
          /\ inv' = [op |-> "netbox_get_objects", object_type |-> object_type,
                     filters |-> filters, fields |-> NoneV, brief |-> FALSE,
                     limit |-> 5, offset |-> 0, ordering |-> ordering]
          /\ Finish(netbox_get_objects(object_type, filters, NoneV, FALSE,
                                       5, 0, ordering, reply))

SessionGetObjectById ==
    /\ pc = "idle"
    /\ \E object_type \in TypeKeys, brief \in BOOLEAN, reply \in SessionReplies :
          /\ inv' = [op |-> "netbox_get_object_by_id", object_type |-> object_type,
                     object_id |-> 7, fields |-> NoneV, brief |-> brief]
          /\ Finish(netbox_get_object_by_id(object_type, 7, NoneV, brief, reply))

SessionCreateObject ==
    /\ pc = "idle"
    /\ \E object_type \in TypeKeys, reply \in WriteReplies :
          /\ inv' = [op |-> "netbox_create_object", object_type |-> object_type,
                     data |-> <<>>]
          /\ Finish(netbox_create_object(object_type, <<>>, reply))

SessionSearchStart ==
    /\ pc = "idle"
    /\ \E object_types \in SessionTypeLists :
          /\ inv' = [op |-> "netbox_search_objects", query |-> "switch",
                     object_types |-> object_types, fields |-> NoneV, limit |-> 5]
          /\ LET search_types == SearchTypes(object_types) IN
             IF UnknownTypes(search_types) # {}
             THEN Finish(Ran(<<>>, <<>>,
                     Raised(InvalidObjectType(<< FirstUnknown(search_types) >>))))
             ELSE /\ pc' = "search"
                  /\ results' = EmptyResults(search_types)
                  /\ idx' = 1
                  /\ calls' = <<>>
                  /\ replies' = <<>>
                  /\ outcome' = NoOutcome
                  /\ HandlerKeepsGlobals

\* the handler's frame is gone and the call goes on record; the server awaits
\* the next tool call
NextCall ==
    /\ pc = "done"
    /\ Len(earlier) < MaxEarlier
    /\ pc' = "idle"
    /\ inv' = [op |-> "none"]
    /\ calls' = <<>>
    /\ replies' = <<>>
    /\ outcome' = NoOutcome
    /\ results' = <<>>
    /\ idx' = 0
    /\ earlier' = Append(earlier, inv.op)
    /\ UNCHANGED <<netbox, catalog, default_types, exit_status>>

NextSession ==
    \/ ParseCliArgs
    \/ LoadSettings
    \/ CreateClient
    \/ RunTransport
    \/ StopTransport
    \/ NextCall
    \/ SessionGetObjects
    \/ SessionGetObjectById
    \/ SessionCreateObject
    \/ SessionSearchStart
    \/ SearchStep
    \/ SearchReturn

SpecSession == Init /\ [][NextSession]_vars

-----------------------------------------------------------------------------
(* validate_filters on its own: every dict over a larger set of keys. *)

KeyAlphabet == { "a", "_", "n" }

\* the strings of exactly n letters of KeyAlphabet
RECURSIVE Words(_)
Words(n) == IF n = 0 THEN { "" } ELSE { w \o c : w \in Words(n - 1), c \in KeyAlphabet }

GeneratedKeys == UNION { Words(n) : n \in 1..MaxKeyLen }

\* the lookup-suffix set as the specification lists it (spec.md 4.2)
LookupSuffixSet ==
    { "n", "ic", "nic", "isw", "nisw", "iew", "niew", "ie", "nie",
      "empty", "regex", "iregex", "lt", "lte", "gt", "gte", "in" }

NamedKeys ==
    { "limit", "offset", "fields", "q", "name", "site_id", "status",
      "name__ic", "id__gt", "vid__gte", "device__site_id", "interface__device__site",
      "device__site__in", "interface__name__ic", "name__IC", "name__", "__in",
      "a___in", "name__ic__", "limit__x" }
    \cup { "f__" \o suffix : suffix \in LookupSuffixSet }

VFKeys == NamedKeys \cup GeneratedKeys

VFilterDicts ==
    { d \in SeqsUpTo({ <<k, PyInt(1)>> : k \in VFKeys }, MaxVFilters) : IsDict(d) }

ValidateFilters ==
    /\ pc = "idle"
    /\ \E filters \in VFilterDicts :
          /\ inv' = [op |-> "validate_filters", filters |-> filters]
          /\ Finish(Ran(<<>>, <<>>, validate_filters(filters)))

NextVF ==
    \/ ValidateFilters
    \/ AwaitCall

\* the module imported and validate_filters called on its own: main has not run
InitVF ==
    /\ pc = "idle"
    /\ NoFrame
    /\ ModuleImported
    /\ earlier = <<>>

SpecVF == InitVF /\ [][NextVF]_vars

-----------------------------------------------------------------------------
(* Vocabulary of the properties. *)

SearchCall == inv.op = "netbox_search_objects"
GetObjectsCall == inv.op = "netbox_get_objects"
GetByIdCall == inv.op = "netbox_get_object_by_id"
ValidateCall == inv.op = "validate_filters"

\* the candidate list of the search in progress
Candidates == SearchTypes(inv.object_types)
AllKnown(types) == \A i \in 1..Len(types) : types[i] \in DOMAIN NETBOX_OBJECT_TYPES
Distinct(types) == \A i, j \in 1..Len(types) : types[i] = types[j] => i = j

UnknownTypeRaised ==
    /\ outcome.kind = "raise"
    /\ outcome.error.exc = "ValueError"
    /\ outcome.error.text = "Invalid object_type"

InvalidFilterRaised ==
    /\ outcome.kind = "raise"
    /\ outcome.error.exc = "ValueError"
    /\ outcome.error.text = "Invalid filter"

-----------------------------------------------------------------------------
(* C1: for a candidate list of distinct catalog keys and any pattern of     *)
(* per-type backend failures, netbox_search_objects ends by returning, never *)
(* by raising; in the returned mapping a type whose call raised maps to []   *)
(* and a type whose call succeeded maps to the 'results' list of its own     *)
(* response ([] when the response has no 'results' key).                     *)
C1_SearchIsolatesFailures ==
    (SearchCall /\ pc = "done" /\ AllKnown(Candidates) /\ Distinct(Candidates)) =>
        /\ outcome.kind = "return"
        /\ Len(replies) = Len(Candidates)
        /\ \A i \in 1..Len(Candidates) :
              LET t == Candidates[i]
                  body == ResponseBody(NETBOX_OBJECT_TYPES[t].endpoint, replies[i])
                  returned == outcome.value[2]
              IN /\ DictHas(returned, t)
                 /\ replies[i] = "raise" => DictGet(returned, t) = PyList(<<>>)
                 /\ (replies[i] # "raise" /\ DictHas(body, "results")) =>
                        DictGet(returned, t) = DictGet(body, "results")
                 /\ (replies[i] # "raise" /\ ~DictHas(body, "results")) =>
                        DictGet(returned, t) = PyList(<<>>)

\* dcim.site answers with a page, ipam.ipaddress raises: the search returns both
C1_Witness ==
    /\ SearchCall /\ pc = "done"
    /\ inv.object_types = PyList(<< "dcim.site", "ipam.ipaddress" >>)
    /\ replies = << "page", "raise" >>
    /\ outcome.kind = "return"
    /\ DictGet(outcome.value[2], "ipam.ipaddress") = PyList(<<>>)
    /\ DictGet(outcome.value[2], "dcim.site") # PyList(<<>>)

(* C2: whenever netbox_search_objects returns, the keys of the returned      *)
(* mapping are exactly the candidate keys searched (the given list, or the   *)
(* default list), whatever the backend did.                                  *)
C2_SearchKeySet ==
    (SearchCall /\ pc = "done" /\ outcome.kind = "return") =>
        KeySet(outcome.value[2]) = { Candidates[i] : i \in 1..Len(Candidates) }

\* the default list searched with every backend call failing: still 8 keys
C2_Witness ==
    /\ SearchCall /\ pc = "done"
    /\ inv.object_types = NoneV
    /\ outcome.kind = "return"
    /\ \A i \in 1..Len(replies) : replies[i] = "raise"
    /\ Cardinality(KeySet(outcome.value[2])) = 8

(* C3: if any key of the candidate list is not a catalog key, wherever it    *)
(* stands in the list, netbox_search_objects fails with the unknown-type     *)
(* error and issues no backend call.                                         *)
C3_UnknownTypeNoCalls ==
    (SearchCall /\ ~AllKnown(Candidates)) =>
        /\ pc = "done"
        /\ UnknownTypeRaised
        /\ calls = <<>>

\* the unknown key comes after a valid one
C3_Witness ==
    /\ SearchCall /\ pc = "done"
    /\ inv.object_types = PyList(<< "dcim.site", "not.a.type" >>)
    /\ UnknownTypeRaised
    /\ calls = <<>>

-----------------------------------------------------------------------------
(* Filter keys, as the specification words them. *)

ReservedKeys == { "limit", "offset", "fields", "q" }

\* where the separator occurs in a key
SeparatorAt(k) == { i \in 1..(Len(k) - 1) : SubSeq(k, i, i + 1) = "__" }

\* field__suffix: one separator, and what follows it is a lookup suffix
FieldSuffixShape(k) ==
    /\ Cardinality(SeparatorAt(k)) = 1
    /\ \A i \in SeparatorAt(k) : SubSeq(k, i + 2, Len(k)) \in LookupSuffixSet

\* two or more segments, the last of them no lookup suffix
BadFinalSegment(k) ==
    /\ k \notin ReservedKeys
    /\ Len(Split(k, "__")) >= 2
    /\ Split(k, "__")[Len(Split(k, "__"))] \notin LookupSuffixSet

FilterKeysGiven == KeySet(inv.filters)

(* C4: validate_filters raises for every non-reserved filter key that       *)
(* splits on '__' into two or more segments whose final segment is not one   *)
(* of the 17 lookup suffixes; 'device__site_id' and                          *)
(* 'interface__device__site' are rejected.                                   *)
C4_BadSuffixRejected ==
    /\ Cardinality(LookupSuffixSet) = 17
    /\ (ValidateCall /\ pc = "done") =>
          /\ (\E k \in FilterKeysGiven : BadFinalSegment(k)) => InvalidFilterRaised
          /\ (FilterKeysGiven \cap { "device__site_id", "interface__device__site" } # {}) =>
                InvalidFilterRaised

C4_Witness ==
    /\ ValidateCall /\ pc = "done"
    /\ FilterKeysGiven = { "device__site_id" }
    /\ BadFinalSegment("device__site_id")
    /\ InvalidFilterRaised

(* C5: validate_filters does not raise for a filter mapping all of whose     *)
(* keys are reserved (limit, offset, fields, q), or hold no '__', or have    *)
(* the shape field__suffix with exactly one separator and a suffix of the    *)
(* lookup-suffix set.                                                        *)
C5_ValidShapesAccepted ==
    (ValidateCall /\ pc = "done"
       /\ \A k \in FilterKeysGiven :
             k \in ReservedKeys \/ SeparatorAt(k) = {} \/ FieldSuffixShape(k)) =>
        outcome = Returned(NoneV)

C5_Witness ==
    /\ ValidateCall /\ pc = "done"
    /\ FilterKeysGiven = { "f__gte" }
    /\ FieldSuffixShape("f__gte")
    /\ outcome = Returned(NoneV)

-----------------------------------------------------------------------------
(* netbox_get_objects: the request it sends. *)

\* the call went to the backend
Sent == Len(calls) = 1
SentParams == calls[1].params

\* a key the validator must refuse, in the specification's words
InvalidKey(k) ==
    ~(k \in ReservedKeys \/ SeparatorAt(k) = {} \/ FieldSuffixShape(k))
HasInvalidKey == \E k \in FilterKeysGiven : InvalidKey(k)
KnownType == inv.object_type \in DOMAIN NETBOX_OBJECT_TYPES

(* C6, as claimed: if the filter mapping given to netbox_get_objects holds   *)
(* an invalid key, the call raises the invalid-filter error and issues no    *)
(* backend request.                                                          *)
C6_Original ==
    (GetObjectsCall /\ pc = "done" /\ HasInvalidKey) =>
        (InvalidFilterRaised /\ calls = <<>>)

(* C6, amended: if the filter mapping given to netbox_get_objects holds an   *)
(* invalid key, at any position, no backend request is issued and the call   *)
(* raises: the invalid-filter error when object_type is a catalog key, the   *)
(* unknown-type error (checked first) when it is not.  A request goes out    *)
(* only when every key passes validation.                                    *)
C6_InvalidFilterNoRequest ==
    (GetObjectsCall /\ pc = "done") =>
        /\ HasInvalidKey =>
              /\ calls = <<>>
              /\ KnownType => InvalidFilterRaised
              /\ ~KnownType => UnknownTypeRaised
        /\ calls # <<>> => ~HasInvalidKey

\* the invalid key comes after a valid one
C6_Witness ==
    /\ GetObjectsCall /\ pc = "done"
    /\ Keys(inv.filters) = << "name__ic", "device__site_id" >>
    /\ KnownType
    /\ InvalidFilterRaised
    /\ calls = <<>>

(* C7: in every backend request of netbox_get_objects, 'limit' and 'offset'  *)
(* are the limit and offset arguments of the call, also when the filter      *)
(* mapping has its own 'limit' or 'offset' key with another value.           *)
C7_PaginationWins ==
    (GetObjectsCall /\ Sent) =>
        /\ DictHas(SentParams, "limit") /\ DictHas(SentParams, "offset")
        /\ DictGet(SentParams, "limit") = PyInt(inv.limit)
        /\ DictGet(SentParams, "offset") = PyInt(inv.offset)

C7_Witness ==
    /\ GetObjectsCall /\ Sent
    /\ DictHas(inv.filters, "limit") /\ DictHas(inv.filters, "offset")
    /\ DictGet(inv.filters, "limit") = PyInt(999)
    /\ inv.limit = 5 /\ inv.offset = 10
    /\ DictGet(SentParams, "limit") = PyInt(5)
    /\ DictGet(SentParams, "offset") = PyInt(10)

\* fields is None or []
NoFieldsArg == inv.fields = NoneV \/ inv.fields = PyList(<<>>)

Occurrences(d, k) == Cardinality({ i \in 1..Len(d) : d[i][1] = k })

(* C9: with a non-empty fields list, the request of netbox_get_objects and   *)
(* of netbox_get_object_by_id carries one 'fields' parameter: the names      *)
(* joined by commas in the given order (['id','name'] gives 'id,name'),      *)
(* whatever 'fields' key the filter mapping has.                             *)
C9_FieldsJoined ==
    ((GetObjectsCall \/ GetByIdCall) /\ Sent /\ Truthy(inv.fields)) =>
        /\ Occurrences(SentParams, "fields") = 1
        /\ DictGet(SentParams, "fields")[1] = "str"
        /\ Split(DictGet(SentParams, "fields")[2], ",") = inv.fields[2]
        /\ inv.fields = PyList(<< "id", "name" >>) =>
              DictGet(SentParams, "fields") = PyStr("id,name")

C9_Witness ==
    /\ GetObjectsCall /\ Sent
    /\ inv.fields = PyList(<< "id", "name" >>)
    /\ DictHas(inv.filters, "fields")
    /\ DictGet(SentParams, "fields") = PyStr("id,name")

(* C10, as claimed: the request of netbox_get_objects has 'brief' = '1' when *)
(* the brief argument is true and no 'brief' parameter when it is false,     *)
(* for every filter mapping that passes validation.                          *)
C10_Original ==
    (GetObjectsCall /\ Sent) =>
        /\ inv.brief =>
              (DictHas(SentParams, "brief") /\ DictGet(SentParams, "brief") = PyStr("1"))
        /\ ~inv.brief => ~DictHas(SentParams, "brief")

(* C10, amended: the request of netbox_get_objects has 'brief' = '1' when    *)
(* the brief argument is true; when it is false the handler adds no 'brief'  *)
(* parameter: the request holds one only when the filter mapping itself has  *)
(* a 'brief' key, and then with the mapping's value.                         *)
C10_BriefMarker ==
    (GetObjectsCall /\ Sent) =>
        /\ inv.brief =>
              (DictHas(SentParams, "brief") /\ DictGet(SentParams, "brief") = PyStr("1"))
        /\ ~inv.brief =>
              /\ DictHas(SentParams, "brief") <=> DictHas(inv.filters, "brief")
              /\ DictHas(SentParams, "brief") =>
                    DictGet(SentParams, "brief") = DictGet(inv.filters, "brief")

C10_Witness ==
    /\ GetObjectsCall /\ Sent
    /\ ~inv.brief
    /\ inv.filters = <<>>
    /\ ~DictHas(SentParams, "brief")

-----------------------------------------------------------------------------
(* netbox_get_objects: ordering. *)

\* a string with something other than white space in it
NonBlank(str) == \E i \in 1..Len(str) : SubSeq(str, i, i) \notin { " ", "\t", "\n", "\r" }

(* C11: when the ordering argument of netbox_get_objects is a non-empty list *)
(* of non-blank names, the request's 'ordering' parameter is the names       *)
(* joined by commas in the given order (['facility','-name'] gives           *)
(* 'facility,-name'); when it is one non-blank string, the parameter is      *)
(* that string unchanged.                                                    *)
C11_OrderingJoined ==
    (GetObjectsCall /\ Sent) =>
        /\ (inv.ordering[1] = "list" /\ inv.ordering[2] # <<>>
              /\ \A i \in 1..Len(inv.ordering[2]) : NonBlank(inv.ordering[2][i])) =>
              /\ Occurrences(SentParams, "ordering") = 1
              /\ DictGet(SentParams, "ordering")[1] = "str"
              /\ Split(DictGet(SentParams, "ordering")[2], ",") = inv.ordering[2]
              /\ inv.ordering = PyList(<< "facility", "-name" >>) =>
                    DictGet(SentParams, "ordering") = PyStr("facility,-name")
        /\ (inv.ordering[1] = "str" /\ NonBlank(inv.ordering[2])) =>
              /\ Occurrences(SentParams, "ordering") = 1
              /\ DictGet(SentParams, "ordering") = inv.ordering

C11_Witness ==
    /\ GetObjectsCall /\ Sent
    /\ inv.ordering = PyList(<< "facility", "-name" >>)
    /\ DictHas(inv.filters, "ordering")
    /\ DictGet(SentParams, "ordering") = PyStr("facility,-name")

\* ordering is None, "", white space only, or []
BlankOrderingArg ==
    \/ inv.ordering = NoneV
    \/ inv.ordering = PyList(<<>>)
    \/ (inv.ordering[1] = "str" /\ ~NonBlank(inv.ordering[2]))

-----------------------------------------------------------------------------
(* C13: no backend request of netbox_get_objects or netbox_search_objects    *)
(* carries a limit outside 1..100 or an offset below 0; a call with an       *)
(* out-of-range limit or offset is rejected with an error and issues no      *)
(* backend call: it is neither clamped nor passed through.                   *)
C13_RangeEnforced ==
    /\ (GetObjectsCall \/ SearchCall) =>
          /\ inv.limit >= 1 /\ inv.limit <= 100
          /\ GetObjectsCall => inv.offset >= 0
          /\ \A i \in 1..Len(calls) :
                /\ DictGet(calls[i].params, "limit")[1] = "int"
                /\ DictGet(calls[i].params, "limit")[2] >= 1
                /\ DictGet(calls[i].params, "limit")[2] <= 100
                /\ DictHas(calls[i].params, "offset") =>
                      /\ DictGet(calls[i].params, "offset")[1] = "int"
                      /\ DictGet(calls[i].params, "offset")[2] >= 0
    /\ inv.op = "rejected" =>
          /\ inv.limit < 1 \/ inv.limit > 100
                \/ (inv.tool = "netbox_get_objects" /\ inv.offset < 0)
          /\ pc = "done"
          /\ outcome.kind = "raise"
          /\ calls = <<>>

C13_Witness ==
    /\ inv.op = "rejected" /\ pc = "done"
    /\ inv.tool = "netbox_get_objects"
    /\ inv.limit = 101 /\ inv.offset = 0
    /\ outcome.kind = "raise"
    /\ calls = <<>>

-----------------------------------------------------------------------------
(* The generic operations that take a type key. *)

GenericOps ==
    { "netbox_get_objects", "netbox_get_object_by_id", "netbox_create_object",
      "netbox_update_object", "netbox_delete_object" }
GenericCall == inv.op \in GenericOps

\* the path the call must go to
ExpectedEndpoint ==
    IF GetByIdCall
    THEN NETBOX_OBJECT_TYPES[inv.object_type].endpoint \o "/" \o ToString(inv.object_id)
    ELSE NETBOX_OBJECT_TYPES[inv.object_type].endpoint

\* how many catalog keys are below each catalog key
KeysBelow ==
    [k \in DOMAIN NETBOX_OBJECT_TYPES |->
        Cardinality({ j \in DOMAIN NETBOX_OBJECT_TYPES : StrLess(j, k) })]

\* the listing of every catalog key in ascending order, one "- key" line
\* each: the key on line i has exactly i - 1 catalog keys below it
CatalogListing ==
    [i \in 1..Cardinality(DOMAIN NETBOX_OBJECT_TYPES) |->
        "- " \o (CHOOSE k \in DOMAIN NETBOX_OBJECT_TYPES : KeysBelow[k] = i - 1)] \o <<>>

(* C14: for netbox_get_objects, netbox_get_object_by_id,                     *)
(* netbox_create_object, netbox_update_object and netbox_delete_object: with *)
(* a key of NETBOX_OBJECT_TYPES the backend call goes to that entry's        *)
(* 'endpoint' (with '/<id>' appended for get-by-id); with any other string   *)
(* the call fails with an error that lists every catalog key in sorted order.*)
C14_EndpointOrListing ==
    (GenericCall /\ pc = "done") =>
        /\ KnownType =>
              /\ \A i \in 1..Len(calls) : calls[i].endpoint = ExpectedEndpoint
              /\ (inv.op # "netbox_get_objects" \/ ~HasInvalidKey) => Len(calls) = 1
        /\ ~KnownType =>
              /\ UnknownTypeRaised
              /\ outcome.error.listed = CatalogListing

\* get-by-id on a catalog key, and the path it went to
C14_Witness ==
    /\ GetByIdCall /\ pc = "done"
    /\ inv.object_type = "ipam.ipaddress"
    /\ Len(calls) = 1
    /\ calls[1].endpoint = "ipam/ip-addresses/7"


-----------------------------------------------------------------------------
(* C15: in netbox_get_objects, netbox_get_object_by_id, netbox_create_object, *)
(* netbox_update_object and netbox_delete_object a type key that is not in   *)
(* the catalog leads to no backend call at all, and a backend call is only   *)
(* ever issued once the key has passed the catalog membership test: a call   *)
(* that went out, and a call that returned, had a catalog key.               *)
C15_LookupPrecedesCall ==
    (GenericCall /\ pc = "done") =>
        /\ ~KnownType => (calls = <<>> /\ replies = <<>> /\ UnknownTypeRaised)
        /\ calls # <<>> => KnownType
        /\ outcome.kind = "return" => (KnownType /\ Len(calls) = 1)

\* a delete of a key outside the catalog: refused, nothing sent
C15_Witness ==
    /\ inv.op = "netbox_delete_object" /\ pc = "done"
    /\ inv.object_type = "not.a.type"
    /\ calls = <<>>
    /\ UnknownTypeRaised

-----------------------------------------------------------------------------
(* The operations that make a single backend call. *)

SingleOps == GenericOps \cup { "netbox_get_changelogs" }
SingleCall == inv.op \in SingleOps

(* C16: in netbox_get_objects, netbox_get_object_by_id,                      *)
(* netbox_get_changelogs, netbox_create_object, netbox_update_object and     *)
(* netbox_delete_object, when the backend call raises, the operation ends by *)
(* raising that same error, and it ends with the backend's error only when   *)
(* the backend call raised.                                                  *)
C16_BackendErrorPropagates ==
    (SingleCall /\ pc = "done") =>
        /\ (\E i \in 1..Len(replies) : replies[i] = "raise")
              => outcome = Raised(BackendError)
        /\ outcome = Raised(BackendError)
              => (replies # <<>> /\ replies[Len(replies)] = "raise")

\* a create whose backend call raised
C16_Witness ==
    /\ inv.op = "netbox_create_object" /\ pc = "done"
    /\ Len(calls) = 1 /\ calls[1].method = "create"
    /\ replies = << "raise" >>
    /\ outcome = Raised(BackendError)

-----------------------------------------------------------------------------
(* What an error message includes. *)

\* the key is quoted in the message, or occurs in one of the lines it lists
MessageIncludes(key) ==
    \/ \E i \in 1..Len(outcome.error.quoted) : outcome.error.quoted[i] = key
    \/ /\ "listed" \in DOMAIN outcome.error
       /\ \E i \in 1..Len(outcome.error.listed) : Contains(outcome.error.listed[i], key)

\* the type keys the call was refused for
RejectedTypes ==
    IF SearchCall
    THEN { Candidates[i] : i \in UnknownTypes(Candidates) }
    ELSE { inv.object_type }

(* C17: every unknown-type error, of any operation, includes a rejected type *)
(* key, and every invalid-filter error includes a rejected filter key.       *)
C17_Original ==
    pc = "done" =>
        /\ UnknownTypeRaised => \E key \in RejectedTypes : MessageIncludes(key)
        /\ InvalidFilterRaised =>
              \E i \in 1..Len(inv.filters) :
                  KeyRejected(inv.filters[i][1]) /\ MessageIncludes(inv.filters[i][1])


-----------------------------------------------------------------------------
(* C18: DEFAULT_SEARCH_TYPES has 8 entries, each a key of                    *)
(* NETBOX_OBJECT_TYPES; a netbox_search_objects call with object_types       *)
(* omitted searches exactly those 8, never fails with the unknown-type       *)
(* error, and returns a mapping whose keys are exactly those 8.              *)
C18_DefaultSearch ==
    /\ Len(DEFAULT_SEARCH_TYPES) = 8
    /\ AllKnown(DEFAULT_SEARCH_TYPES)
    /\ Distinct(DEFAULT_SEARCH_TYPES)
    /\ (SearchCall /\ inv.object_types = NoneV) =>
          /\ Candidates = DEFAULT_SEARCH_TYPES
          /\ outcome.kind # "raise"
          /\ pc = "done" =>
                /\ outcome.kind = "return"
                /\ Len(calls) = 8
                /\ \A i \in 1..8 :
                      calls[i].endpoint =
                          NETBOX_OBJECT_TYPES[DEFAULT_SEARCH_TYPES[i]].endpoint
                /\ Len(outcome.value[2]) = 8
                /\ KeySet(outcome.value[2]) =
                      { DEFAULT_SEARCH_TYPES[i] : i \in 1..8 }

\* a search with object_types omitted that has returned
C18_Witness ==
    /\ SearchCall /\ pc = "done"
    /\ inv.object_types = NoneV
    /\ outcome.kind = "return"
    /\ Len(calls) = 8
    /\ DictHas(outcome.value[2], "virtualization.virtualmachine")

-----------------------------------------------------------------------------
\* the field projection every per-type query of the search carries
Projection ==
    IF inv.fields \in { NoneV, PyList(<<>>) } THEN NoneV
    ELSE PyStr(Join(",", inv.fields[2]))

(* C19: for a candidate list of catalog keys, netbox_search_objects issues   *)
(* one backend get per candidate, in order, to the candidate's catalog       *)
(* endpoint, each with the call's query, limit and field projection; it has  *)
(* no result while a candidate's call is still to be issued, and when it     *)
(* returns every candidate's call has been answered or has raised.           *)
C19_OneCallPerCandidate ==
    (SearchCall /\ AllKnown(Candidates)) =>
        /\ Len(replies) = Len(calls)
        /\ \A i \in 1..Len(calls) :
              /\ calls[i].method = "get"
              /\ calls[i].endpoint = NETBOX_OBJECT_TYPES[Candidates[i]].endpoint
              /\ Keys(calls[i].params) = << "q", "limit", "fields" >>
              /\ DictGet(calls[i].params, "q") = PyStr(inv.query)
              /\ DictGet(calls[i].params, "limit") = PyInt(inv.limit)
              /\ DictGet(calls[i].params, "fields") = Projection
        /\ pc = "search" => (outcome = NoOutcome /\ Len(calls) = idx - 1)
        /\ Len(calls) < Len(Candidates) => outcome = NoOutcome
        /\ pc = "done" => (outcome.kind = "return" /\ Len(calls) = Len(Candidates))

\* a search over two candidates, the first call raised, the result came
\* after the second
C19_Witness ==
    /\ SearchCall /\ pc = "done"
    /\ inv.object_types = PyList(<< "ipam.ipaddress", "dcim.site" >>)
    /\ inv.fields = PyList(<< "id", "name" >>)
    /\ replies = << "raise", "page" >>
    /\ calls[2].endpoint = "dcim/sites"
    /\ outcome.kind = "return"

-----------------------------------------------------------------------------
(* C20: no operation issues a backend call again after it failed:            *)
(* netbox_get_objects, netbox_get_object_by_id, netbox_get_changelogs,       *)
(* netbox_create_object, netbox_update_object and netbox_delete_object issue *)
(* at most one backend call per invocation, and netbox_search_objects at     *)
(* most one per candidate occurrence it has reached, whatever the answers.   *)
C20_NoRetry ==
    /\ Len(replies) = Len(calls)
    /\ SingleCall => Len(calls) <= 1
    /\ SearchCall =>
          /\ Len(calls) <= Len(Candidates)
          /\ pc = "search" => Len(calls) <= idx - 1
          /\ \A i \in 1..Len(calls) :
                \E j \in i..Len(Candidates) :
                    calls[i].endpoint = NETBOX_OBJECT_TYPES[Candidates[j]].endpoint
    /\ inv.op \in { "none", "rejected" } => calls = <<>>

\* a changelog query whose call raised: the one call, and the error
C20_Witness ==
    /\ inv.op = "netbox_get_changelogs" /\ pc = "done"
    /\ inv.filters = <<>>
    /\ replies = << "raise" >> /\ Len(calls) = 1
    /\ calls[1].endpoint = "core/object-changes"
    /\ outcome.kind = "raise"


-----------------------------------------------------------------------------
(* What a read call does in a process that has served no call before: a     *)
(* function of the call's arguments and of the backend's answers alone, over *)
(* the catalog and the default list as the module defines them.              *)

\* the candidate list, from the default list as the module defines it
FreshCandidates ==
    IF inv.object_types = NoneV THEN DEFAULT_SEARCH_TYPES ELSE inv.object_types[2]

FreshUnknownType(quoted) ==
    Raised([exc |-> "ValueError", text |-> "Invalid object_type",
            quoted |-> quoted, listed |-> CatalogListing])

\* one get answered by replies[1]
FreshGet(endpoint, params) ==
    [calls |-> << GetRequest(endpoint, params) >>,
     outcome |-> IF replies = <<>> THEN NoOutcome
                 ELSE IF replies[1] = "raise" THEN Raised(BackendError)
                 ELSE Returned(PyDict(ResponseBody(endpoint, replies[1])))]

FreshGetObjects ==
    IF ~KnownType THEN [calls |-> <<>>, outcome |-> FreshUnknownType(<<>>)]
    ELSE IF validate_filters(inv.filters).kind = "raise"
    THEN [calls |-> <<>>, outcome |-> validate_filters(inv.filters)]
    ELSE FreshGet(ExpectedEndpoint,
                  OrderingParam(
                    BriefParam(
                      FieldsParam(
                        PaginationParams(inv.filters, inv.limit, inv.offset),
                        inv.fields),
                      inv.brief),
                    inv.ordering))

FreshGetObjectById ==
    IF ~KnownType THEN [calls |-> <<>>, outcome |-> FreshUnknownType(<<>>)]
    ELSE FreshGet(ExpectedEndpoint, BriefParam(FieldsParam(<<>>, inv.fields), inv.brief))

\* the entry of 'results' after the answer to one candidate's query
StoreAnswer(res, type, reply) ==
    IF reply = "raise" THEN res
    ELSE DictSet(res, type,
                 DictGetOr(ResponseBody(NETBOX_OBJECT_TYPES[type].endpoint, reply),
                           "results", PyList(<<>>)))

\* 'results' after the candidates 'types' were answered by 'rs', in order
RECURSIVE Aggregate(_, _, _)
Aggregate(res, types, rs) ==
    IF types = <<>> \/ rs = <<>> THEN res
    ELSE Aggregate(StoreAnswer(res, Head(types), Head(rs)), Tail(types), Tail(rs))

FirstUnknownCandidate ==
    FreshCandidates[CHOOSE i \in 1..Len(FreshCandidates) :
        /\ FreshCandidates[i] \notin DOMAIN NETBOX_OBJECT_TYPES
        /\ \A j \in 1..(i - 1) : FreshCandidates[j] \in DOMAIN NETBOX_OBJECT_TYPES]

FreshSearch ==
    IF ~AllKnown(FreshCandidates)
    THEN [calls |-> <<>>, outcome |-> FreshUnknownType(<< FirstUnknownCandidate >>)]
    ELSE [calls |-> [i \in 1..Len(FreshCandidates) |->
                        GetRequest(NETBOX_OBJECT_TYPES[FreshCandidates[i]].endpoint,
                                   SearchParams(inv.query, inv.fields, inv.limit))],
          outcome |-> Returned(PyDict(
                        Aggregate(EmptyResults(FreshCandidates), FreshCandidates,
                                  replies)))]

FreshRead ==
    IF GetObjectsCall THEN FreshGetObjects
    ELSE IF GetByIdCall THEN FreshGetObjectById
    ELSE FreshSearch

ReadCall == GetObjectsCall \/ GetByIdCall \/ SearchCall

(* C21: a finished netbox_get_objects, netbox_get_object_by_id or            *)
(* netbox_search_objects call has issued the requests, and ended with the    *)
(* result, that its arguments and the backend's answers give in a process    *)
(* that served no call before: whatever tools were called earlier, the same  *)
(* arguments give the same requests and, with the same answers, the same     *)
(* result.                                                                   *)
C21_HistoryIndependent ==
    (ReadCall /\ pc = "done") =>
        /\ calls = FreshRead.calls
        /\ outcome = FreshRead.outcome

\* a default search that ended right after a create call had been served
C21_Witness ==
    /\ SearchCall /\ pc = "done"
    /\ inv.object_types = NoneV
    /\ earlier = << "netbox_create_object" >>
    /\ Len(calls) = Len(DEFAULT_SEARCH_TYPES)
    /\ replies[1] = "page" /\ replies[2] = "raise"
    /\ outcome.kind = "return"


-----------------------------------------------------------------------------
\* the transport has started: a tool call is awaited, running or finished
Serving == pc \in { "idle", "search", "done" }

(* C22: from the start of the transport on, through every tool invocation,   *)
(* whether it returns or raises, the catalog NETBOX_OBJECT_TYPES and the     *)
(* list DEFAULT_SEARCH_TYPES hold what the module defines and the            *)
(* module-level handle is the client main constructed: no tool operation     *)
(* adds, removes or alters a catalog entry or reassigns the handle.          *)
C22_GlobalsUnchanged ==
    Serving =>
        /\ catalog = NETBOX_OBJECT_TYPES
        /\ default_types = DEFAULT_SEARCH_TYPES
        /\ netbox = Client

\* an update that failed in the backend has finished, the three as they were
C22_Witness ==
    /\ pc = "done"
    /\ inv.op = "netbox_update_object"
    /\ outcome = Raised(BackendError)
    /\ catalog = NETBOX_OBJECT_TYPES
    /\ default_types = DEFAULT_SEARCH_TYPES
    /\ netbox = Client


-----------------------------------------------------------------------------
\* the read operations that take a filter mapping
FilteredReads == { "netbox_get_objects", "netbox_get_changelogs" }
FilteredRead == inv.op \in FilteredReads

(* C23: in every backend request of netbox_get_objects and of                *)
(* netbox_get_changelogs, every key sent is a reserved key, a direct field   *)
(* name without separator, or a field name plus exactly one recognized       *)
(* lookup suffix: a multi-hop key such as 'device__site_id' never reaches    *)
(* the backend through either operation.                                     *)
C23_Original ==
    FilteredRead =>
        \A i \in 1..Len(calls) :
            \A j \in 1..Len(calls[i].params) : ~InvalidKey(calls[i].params[j][1])


-----------------------------------------------------------------------------
\* the convenience wrapper that was called, by kind
CreateXCall == \E X \in CreateWrappers : X.name = inv.op
UpdateXCall == \E X \in UpdateWrappers : X.name = inv.op
DeleteXCall == \E X \in DeleteWrappers : X.name = inv.op
WrapperCalled ==
    CHOOSE X \in CreateWrappers \cup UpdateWrappers \cup DeleteWrappers :
        X.name = inv.op

\* the catalog keys whose entry has this endpoint
TypeKeysOf(endpoint) ==
    { key \in DOMAIN NETBOX_OBJECT_TYPES :
        NETBOX_OBJECT_TYPES[key].endpoint = endpoint }

\* the named fields of a create wrapper's call: every field of the payload
\* literal, and the optional parameters that were given
NamedGiven ==
    LET X == WrapperCalled IN
    SelectSeq(inv.args,
              LAMBDA a : (\E i \in 1..Len(X.fields) : X.fields[i] = a[1])
                         \/ Truthy(a[2]))

DataGiven == IF inv.data = NoneV THEN <<>> ELSE inv.data[2]

\* 'named' overlaid by 'data': a key of data takes data's value, the keys
\* that data adds follow
Overlaid(named, data) ==
    [i \in 1..Len(named) |->
        IF DictHas(data, named[i][1])
        THEN << named[i][1], DictGet(data, named[i][1]) >>
        ELSE named[i]]
    \o SelectSeq(data, LAMBDA item : ~DictHas(named, item[1]))

MergedPayload == Overlaid(NamedGiven, DataGiven)

\* the call did what 'ran' says
DidAs(ran) == calls = ran.calls /\ outcome = ran.outcome

(* C24: every convenience wrapper's endpoint is the 'endpoint' of a          *)
(* NETBOX_OBJECT_TYPES entry, and for all arguments netbox_create_X,         *)
(* netbox_update_X and netbox_delete_X issue the backend call (endpoint, id  *)
(* and body), and end with the result, of netbox_create_object,              *)
(* netbox_update_object and netbox_delete_object called with that entry's    *)
(* key and, for a create, the merged payload.                                *)
C24_WrapperIsGeneric ==
    ((CreateXCall \/ UpdateXCall \/ DeleteXCall) /\ pc = "done") =>
        /\ Len(replies) = 1
        /\ TypeKeysOf(WrapperCalled.endpoint) # {}
        /\ \A key \in TypeKeysOf(WrapperCalled.endpoint) :
              /\ CreateXCall =>
                    DidAs(netbox_create_object(key, MergedPayload, replies[1]))
              /\ UpdateXCall =>
                    DidAs(netbox_update_object(key, inv.id, inv.data, replies[1]))
              /\ DeleteXCall =>
                    DidAs(netbox_delete_object(key, inv.id, replies[1]))

\* netbox_delete_cable has deleted cable 7: the call netbox_delete_object
\* issues for 'dcim.cable'
C24_Witness ==
    /\ inv.op = "netbox_delete_cable" /\ pc = "done"
    /\ calls = << DeleteRequest(NETBOX_OBJECT_TYPES["dcim.cable"].endpoint, 7) >>
    /\ outcome = Returned(PyBool(TRUE))


-----------------------------------------------------------------------------
\* more than one '__' separator: two occurrences that do not overlap, so
\* three or more segments
MultiSeparator(k) == \E i, j \in SeparatorAt(k) : j >= i + 2

\* what follows the last separator
FinalSegment(k) ==
    LET last == CHOOSE i \in SeparatorAt(k) : \A j \in SeparatorAt(k) : j <= i
    IN SubSeq(k, last + 2, Len(k))

(* C25: validate_filters raises for every filter mapping that holds a        *)
(* non-reserved key with more than one '__' separator (three or more         *)
(* segments), whatever the key's final segment: 'device__site__in' and       *)
(* 'interface__name__ic', whose last segment is a lookup suffix, are         *)
(* rejected.                                                                 *)
C25_MultiSeparatorRejected ==
    (ValidateCall /\ pc = "done") =>
        /\ (\E k \in FilterKeysGiven : k \notin ReservedKeys /\ MultiSeparator(k))
              => InvalidFilterRaised
        /\ (FilterKeysGiven \cap { "device__site__in", "interface__name__ic" } # {})
              => InvalidFilterRaised

\* 'interface__name__ic': three segments, the last a lookup suffix, rejected
C25_Witness ==
    /\ ValidateCall /\ pc = "done"
    /\ FilterKeysGiven = { "interface__name__ic" }
    /\ MultiSeparator("interface__name__ic")
    /\ FinalSegment("interface__name__ic") \in LookupSuffixSet
    /\ InvalidFilterRaised


-----------------------------------------------------------------------------
\* the page size and the offset the caller gave as arguments of their own:
\* netbox_get_objects has both, netbox_get_changelogs has neither
PageArgument(k) ==
    IF GetObjectsCall
    THEN { PyInt(IF k = "limit" THEN inv.limit ELSE inv.offset) }
    ELSE {}

(* C26: in netbox_get_objects and netbox_get_changelogs the 'limit' and      *)
(* 'offset' sent to the backend are never taken from the filter mapping:     *)
(* when the mapping holds such a key, what the request carries under it is   *)
(* the caller's limit or offset argument, not the mapping's value.           *)
C26_Original ==
    FilteredRead =>
        \A i \in 1..Len(calls) :
            \A k \in { "limit", "offset" } :
                (DictHas(inv.filters, k) /\ DictHas(calls[i].params, k)) =>
                    DictGet(calls[i].params, k) \in PageArgument(k)


-----------------------------------------------------------------------------
\* main is before the point where the transport is started
Starting == pc \in { "main", "settings", "client", "transport" }

(* C27: in every run of main the handle is assigned once, by the client      *)
(* construction step and before the transport serves, so a tool operation    *)
(* never runs with the handle unset; when loading the settings or            *)
(* constructing the client fails the process exits with status 1, and an     *)
(* exited process never starts the transport.                                *)
C27_HandleBeforeServing ==
    /\ [](Serving => netbox = Client)
    /\ [](pc \in { "main", "settings", "client" } => netbox = NoneV)
    /\ [][ /\ netbox' # netbox =>
                (pc = "client" /\ netbox = NoneV /\ netbox' = Client)
           /\ (pc = "settings" /\ pc' # "client") =>
                (pc' = "exited" /\ exit_status' = 1 /\ netbox' = NoneV)
           /\ (pc = "client" /\ pc' # "transport") =>
                (pc' = "exited" /\ exit_status' = 1 /\ netbox' = NoneV)
           /\ (Starting /\ pc' \in { "idle", "search", "done" }) =>
                (pc = "transport" /\ netbox = Client)
           /\ pc = "exited" => pc' = "exited"
         ]_vars

\* main has exited with status 1 before a client existed: no call was served
C27_Witness ==
    /\ pc = "exited"
    /\ exit_status = 1
    /\ netbox = NoneV
    /\ inv = [op |-> "none"]


-----------------------------------------------------------------------------
\* a dict as a mapping: its (key, value) items, the order set aside
AsMapping(d) == { d[i] : i \in 1..Len(d) }

\* the rearrangements of n positions a search is compared with: all of them
\* for a list of up to four; for a longer one the swap of the first two, the rotation
\* by one (the two generate every rearrangement) and the reversal
Rearrangements(n) ==
    IF n <= 4
    THEN { p \in [1..n -> 1..n] : \A i, j \in 1..n : p[i] = p[j] => i = j }
    ELSE { [i \in 1..n |-> IF i = 1 THEN 2 ELSE IF i = 2 THEN 1 ELSE i],
           [i \in 1..n |-> (i % n) + 1],
           [i \in 1..n |-> n + 1 - i] }

Rearranged(seq, p) == [i \in 1..Len(seq) |-> seq[p[i]]]

(* C28: for a candidate list of distinct catalog keys, the mapping           *)
(* netbox_search_objects returns is the mapping it returns for the list in   *)
(* another order, each type's query answered (by a response or a failure) as *)
(* in this call: the same keys, and the same value for each key.             *)
C28_OrderIndependent ==
    (SearchCall /\ pc = "done" /\ AllKnown(Candidates) /\ Distinct(Candidates)) =>
        /\ outcome.kind = "return"
        /\ Len(replies) = Len(Candidates)
        /\ \A p \in Rearrangements(Len(Candidates)) :
              AsMapping(SearchAll(Rearranged(Candidates, p), Rearranged(replies, p)))
                  = AsMapping(outcome.value[2])

\* ipam.ipaddress raised and dcim.site answered: the mapping is that of the
\* search over (dcim.site, ipam.ipaddress) with the same two answers
C28_Witness ==
    /\ SearchCall /\ pc = "done"
    /\ inv.object_types = PyList(<< "ipam.ipaddress", "dcim.site" >>)
    /\ replies = << "raise", "page" >>
    /\ outcome.kind = "return"
    /\ AsMapping(outcome.value[2])
          = AsMapping(SearchAll(<< "dcim.site", "ipam.ipaddress" >>, << "page", "raise" >>))
    /\ Keys(outcome.value[2]) # Keys(SearchAll(<< "dcim.site", "ipam.ipaddress" >>,
                                               << "page", "raise" >>))


-----------------------------------------------------------------------------
\* where the key stands in the candidate list, and where its query succeeded
OccurrencesOf(key) == { i \in 1..Len(Candidates) : Candidates[i] = key }
SucceededAt(key) == { i \in OccurrencesOf(key) : replies[i] # "raise" }
\* the keys that occur more than once
Repeated ==
    { Candidates[i] : i \in { j \in 1..Len(Candidates) :
                                \E h \in 1..Len(Candidates) :
                                    h # j /\ Candidates[h] = Candidates[j] } }

\* the 'results' list of the answer to the i-th query ([] without that key)
ResultsAt(i) ==
    DictGetOr(ResponseBody(NETBOX_OBJECT_TYPES[Candidates[i]].endpoint, replies[i]),
              "results", PyList(<<>>))

\* one call per occurrence, in order, and one entry for each repeated key:
\* that of its last occurrence whose call succeeded
LastSuccessKept ==
    /\ outcome.kind = "return"
    /\ Len(calls) = Len(Candidates) /\ Len(replies) = Len(Candidates)
    /\ \A key \in Repeated :
          /\ \A i \in OccurrencesOf(key) :
                calls[i].endpoint = NETBOX_OBJECT_TYPES[key].endpoint
          /\ Occurrences(outcome.value[2], key) = 1
          /\ SucceededAt(key) # {} =>
                \E last \in SucceededAt(key) :
                    /\ \A i \in SucceededAt(key) : i <= last
                    /\ DictGet(outcome.value[2], key) = ResultsAt(last)

(* C29, as claimed: when a catalog key occurs more than once in the          *)
(* candidate list, one call is issued per occurrence and the mapping has one *)
(* entry for the key, holding the results of the last occurrence whose call  *)
(* succeeded; the entry is empty only if every occurrence's call failed.     *)
C29_Original ==
    (SearchCall /\ pc = "done" /\ AllKnown(Candidates) /\ Repeated # {}) =>
        /\ LastSuccessKept
        /\ \A key \in Repeated :
              DictGet(outcome.value[2], key) = PyList(<<>>) => SucceededAt(key) = {}

(* C29, amended: when a catalog key occurs more than once in the candidate   *)
(* list, one call is issued per occurrence and the mapping has one entry for *)
(* the key, holding the 'results' list of the last occurrence whose call     *)
(* succeeded ([] when that response has no 'results' key); a later failure   *)
(* does not reset the entry, and when every occurrence's call failed the     *)
(* entry is [].  An empty entry does not show that every call failed.        *)
C29_LastSuccessWins ==
    (SearchCall /\ pc = "done" /\ AllKnown(Candidates) /\ Repeated # {}) =>
        /\ LastSuccessKept
        /\ \A key \in Repeated :
              SucceededAt(key) = {} => DictGet(outcome.value[2], key) = PyList(<<>>)

\* dcim.site twice, the first query answered and the second failed: the entry
\* is the first answer's results
C29_Witness ==
    /\ SearchCall /\ pc = "done"
    /\ inv.object_types = PyList(<< "dcim.site", "dcim.site" >>)
    /\ replies = << "page", "raise" >>
    /\ Len(calls) = 2
    /\ Keys(outcome.value[2]) = << "dcim.site" >>
    /\ DictGet(outcome.value[2], "dcim.site") = ResultsAt(1)
    /\ ResultsAt(1) # PyList(<<>>)


-----------------------------------------------------------------------------
\* the arguments for the fields of the payload literal (the required fields,
\* and 'status' with its default)
RequiredGiven ==
    LET X == WrapperCalled IN
    SelectSeq(inv.args, LAMBDA a : \E i \in 1..Len(X.fields) : X.fields[i] = a[1])

\* the body is 'named' overlaid by the data mapping, which is left as it was
BodyOverlays(named) ==
    /\ Len(calls) = 1
    /\ LET body == calls[1].body IN
       /\ KeySet(body) = KeySet(named) \cup KeySet(DataGiven)
       /\ \A k \in KeySet(DataGiven) : DictGet(body, k) = DictGet(DataGiven, k)
       /\ \A k \in KeySet(named) \ KeySet(DataGiven) : DictGet(body, k) = DictGet(named, k)
       /\ DataGiven = <<>> => body = named
       /\ body = Overlaid(named, DataGiven)
    /\ inv.data_after = inv.data

(* C30, as claimed: in every create wrapper the body sent is the named       *)
(* required fields overlaid by the data mapping: a key of data overrides the *)
(* same-named argument, a key absent from data keeps the argument's value,   *)
(* with data absent or empty the body is exactly the named fields; the       *)
(* caller's data mapping is not modified.                                    *)
C30_Original ==
    (CreateXCall /\ pc = "done") => BodyOverlays(RequiredGiven)

(* C30, amended: in every create wrapper the body sent is the named fields   *)
(* overlaid by the data mapping, where the named fields are the arguments of *)
(* the payload literal and, in netbox_create_tag, the optional 'slug' and    *)
(* 'color' arguments when they are given (not None, not ''): a key of data   *)
(* overrides the same-named argument, a key absent from data keeps the       *)
(* argument's value, with data absent or empty the body is exactly the named *)
(* fields; the caller's data mapping is not modified.                        *)
C30_PayloadOverlay ==
    (CreateXCall /\ pc = "done") => BodyOverlays(NamedGiven)

\* netbox_create_site with a data mapping that sets 'description' and 'name':
\* the name is data's, slug and status are the arguments
C30_Witness ==
    /\ inv.op = "netbox_create_site" /\ pc = "done"
    /\ inv.data = PyDict(<< << "description", PyStr("from data") >>,
                            << "name", PyStr("from data") >> >>)
    /\ DictGet(inv.args, "name") = PyStr("given")
    /\ Len(calls) = 1
    /\ Keys(calls[1].body) = << "name", "slug", "status", "description" >>
    /\ DictGet(calls[1].body, "name") = PyStr("from data")
    /\ DictGet(calls[1].body, "slug") = DictGet(inv.args, "slug")
    /\ inv.data_after = inv.data

====
